---- MODULE Spec2Model ----
(***************************************************************************)
(* Verification model of Async-FastAPI-MultiDB:                            *)
(*   - the database-backed Celery beat scheduler (src/queues/scheduler.py) *)
(*   - the generic CRUD layer over SQLModel (src/crud/base.py) and over    *)
(*     Beanie (src/crud/crud_beanie.py).                                   *)
(* Each subsystem has its own specification over the shared variables.     *)
(***************************************************************************)
EXTENDS Integers, Sequences, FiniteSets, TLC

(***************************************************************************)
(* Bounds of the model.                                                    *)
(***************************************************************************)
MaxRows == 2
MaxTime == 3

(***************************************************************************)
(* Generic helpers: Python dicts are functions with a finite domain.       *)
(***************************************************************************)
EmptyDict == [x \in {} |-> x]

DictPut(d, k, v) == [x \in DOMAIN d \cup {k} |-> IF x = k THEN v ELSE d[x]]

DictUpdate(a, b) == [x \in DOMAIN a \cup DOMAIN b |-> IF x \in DOMAIN b THEN b[x] ELSE a[x]]

DictDrop(d, ks) == [x \in DOMAIN d \ ks |-> d[x]]

Range(s) == {s[i] : i \in DOMAIN s}

\* all orderings of a finite set, as sequences without repetition
Orderings(S) == {s \in [1..Cardinality(S) -> S] : Range(s) = S}

(***************************************************************************)
(* Scheduler: state.                                                       *)
(***************************************************************************)
VARIABLES
    periodic_task,      \* table celery_periodic_task: row id -> row or NoRow
    schedule_rows,      \* task_type -> ids present in that type's schedule table
    default_entries,    \* result_expires set and backend without autoexpire
    refresh_interval,   \* DatabaseScheduler.refresh_interval (seconds)
    store,              \* DatabaseScheduler._store: name -> ScheduleEntry
    last_updated,       \* DatabaseScheduler.last_updated
    now,                \* datetime.now(UTC), in seconds
    tick_log            \* what the most recent tick() call did (NoTick if the
                        \* database changed or time passed since)

schedVars == <<periodic_task, schedule_rows, default_entries,
               refresh_interval, store, last_updated, now, tick_log>>

(***************************************************************************)
(* CRUD layer: state.  One run exercises one of the two CRUD classes.      *)
(***************************************************************************)
VARIABLES
    engine,         \* the CRUD class in use: "sql" (BaseSQLModelCRUD) | "beanie" (BaseBeanieCRUD)
    auto_commit,    \* BaseSQLModelCRUD.auto_commit, the constructor's argument
    sql_session,    \* the rows the CRUD's AsyncSession sees in its transaction: id -> row
    sql_committed,  \* the committed rows of the model's table: id -> row
    collection,     \* the documents of the model's MongoDB collection: id -> document
    clock,          \* datetime.now()
    crud_log        \* the latest call of the CRUD: its arguments and its outcome

crudVars == <<engine, auto_commit, sql_session, sql_committed, collection, clock, crud_log>>

(***************************************************************************)
(* Counter collection (src/models/counter.py): state.                      *)
(***************************************************************************)
VARIABLES
    counter,            \* the documents of collection "counter" that match one
                        \* (collection_name, conditions) key, in natural order: their seq
    sequence_pc,        \* caller -> where its get_next_sequence call is
    sequence_returned   \* the values get_next_sequence has returned, in order of return

sequenceVars == <<counter, sequence_pc, sequence_returned>>

(***************************************************************************)
(* Authentication and permissions (src/deps, src/services/auth.py): state. *)
(***************************************************************************)
VARIABLES
    role_table,         \* table roles: role code -> its interface_permissions
    permission_cache,   \* Redis keys auth:permission:<user_id>: user id -> cached list
    auth_log            \* the latest call of the authentication layer and its outcome

authVars == <<role_table, permission_cache, auth_log>>

(***************************************************************************)
(* RedisManager (src/core/database.py): state.                             *)
(***************************************************************************)
VARIABLES
    redis_pools,        \* RedisManager._pools: pool name -> ConnectionPool (its identity)
    redis_clients,      \* RedisManager._clients: pool name -> Redis client (the pool it uses)
    redis_created,      \* how many ConnectionPools have been created so far
    redis_tasks,        \* task -> the disconnect or clear call it is suspended in, at its await
    redis_log,          \* the latest call of RedisManager and its outcome
    redis_disconnected  \* the ConnectionPools whose disconnect() has been called

redisVars == <<redis_pools, redis_clients, redis_created, redis_tasks, redis_log,
               redis_disconnected>>

(***************************************************************************)
(* websocket AsyncServer (src/websockets/server.py): state.                *)
(***************************************************************************)
VARIABLES
    ws_handlers,        \* self.handlers of the namespace: event -> what is registered
    ws_log              \* the latest registration or incoming event and what it did

wsVars == <<ws_handlers, ws_log>>

(***************************************************************************)
(* FastAPI application (src/main.py): state.                               *)
(***************************************************************************)
VARIABLES
    http_log            \* the latest request: what its handling raised and the response sent

httpVars == <<http_log>>

(***************************************************************************)
(* get_paginate between its two queries (src/crud): state.                 *)
(***************************************************************************)
VARIABLES
    paginate_call       \* the get_paginate call that has made its first query: its
                        \* arguments, the records read, the writes of others since

paginateVars == <<paginate_call>>

\* the variables of the subsystems added to the scheduler and the CRUD layer
auxVars == <<sequenceVars, authVars, redisVars, wsVars, httpVars, paginateVars>>

\* what an action of one subsystem leaves alone: every other subsystem
sequenceOthers == <<schedVars, crudVars, authVars, redisVars, wsVars, httpVars, paginateVars>>
authOthers == <<schedVars, crudVars, sequenceVars, redisVars, wsVars, httpVars, paginateVars>>
redisOthers == <<schedVars, crudVars, sequenceVars, authVars, wsVars, httpVars, paginateVars>>
wsOthers == <<schedVars, crudVars, sequenceVars, authVars, redisVars, httpVars, paginateVars>>
httpOthers == <<schedVars, crudVars, sequenceVars, authVars, redisVars, wsVars, paginateVars>>
paginateOthers == <<schedVars, sequenceVars, authVars, redisVars, wsVars, httpVars>>


RowIds == 1..MaxRows
ScheduleIds == {1}
TaskNames == {"test_beat_task", "db_task"}
TaskTypes == {"interval", "crontab"}
BackendCleanup == "celery.backend_cleanup"
NoRow == [present |-> FALSE]
NoTick == [op |-> "none"]

\* the dotted path of the task a row runs; rows of the model differ in it
RowTask(i) == IF i = 1 THEN "src.queues.tasks.tasks.test_celery" ELSE "src.queues.tasks.tasks.other"

PeriodicTask(name, enabled, i, task_type, schedule_id) ==
    [present |-> TRUE, name |-> name, enabled |-> enabled, task |-> RowTask(i),
     task_type |-> task_type, schedule_id |-> schedule_id]

\* app.conf.beat_schedule, as src/queues/app.py configures it
beat_schedule ==
    [n \in {"test_beat_task"} |->
        [task |-> "src.queues.tasks.tasks.test_celery",
         schedule |-> [kind |-> "seconds", value |-> 10]]]

\* celery.beat.ScheduleEntry(name, task, schedule, ...)
ScheduleEntry(task, schedule) == [task |-> task, schedule |-> schedule]

(***************************************************************************)
(* DatabaseScheduler._database_schedule.  `tasks' is the result list of    *)
(* the SELECT ... WHERE enabled IS TRUE, in the order the database         *)
(* returned it (no ORDER BY: any order).                                   *)
(***************************************************************************)
EnabledRows == {i \in RowIds : periodic_task[i].present /\ periodic_task[i].enabled}

\* select(task.task_type.model).where(model.id == task.schedule_id).first()
schedule_info(task) == task.schedule_id \in schedule_rows[task.task_type]

RECURSIVE celery_beat_loop(_, _)
celery_beat_loop(tasks, celery_beat) ==
    IF tasks = <<>> THEN celery_beat
    ELSE LET task == periodic_task[Head(tasks)]
         IN  IF schedule_info(task)
             THEN celery_beat_loop(Tail(tasks),
                    DictPut(celery_beat, task.name,
                        ScheduleEntry(task.task,
                            [kind |-> task.task_type, value |-> task.schedule_id])))
             ELSE celery_beat_loop(Tail(tasks), celery_beat)

\* faulty variant: every enabled row gets an entry, whether or not its schedule row exists
RECURSIVE celery_beat_loop_noguard(_, _)
celery_beat_loop_noguard(tasks, celery_beat) ==
    IF tasks = <<>> THEN celery_beat
    ELSE LET task == periodic_task[Head(tasks)]
         IN  celery_beat_loop_noguard(Tail(tasks),
                    DictPut(celery_beat, task.name,
                        ScheduleEntry(task.task,
                            [kind |-> task.task_type, value |-> task.schedule_id])))

\* faulty variant: the database entries win over the configured ones
database_schedule_db_priority(tasks) ==
    DictUpdate([n \in DOMAIN beat_schedule |->
                    ScheduleEntry(beat_schedule[n].task, beat_schedule[n].schedule)],
               celery_beat_loop(tasks, EmptyDict))

database_schedule(tasks) ==
    DictUpdate(celery_beat_loop(tasks, EmptyDict),
               [n \in DOMAIN beat_schedule |->
                    ScheduleEntry(beat_schedule[n].task, beat_schedule[n].schedule)])

(***************************************************************************)
(* celery.beat.Scheduler.merge_inplace(b), as called by setup_schedule:    *)
(* pops the keys of the symmetric difference A ^ B, then updates the       *)
(* entries that stay (task and schedule) and adds the new ones.            *)
(***************************************************************************)
\* faulty variant: a merge that only adds and updates, never removing stale entries
merge_inplace_keep(schedule, b) ==
    [key \in DOMAIN schedule \cup DOMAIN b |->
        IF key \in DOMAIN b
        THEN IF key \in DOMAIN schedule
             THEN [schedule[key] EXCEPT !.task = b[key].task, !.schedule = b[key].schedule]
             ELSE b[key]
        ELSE schedule[key]]

merge_inplace(schedule, b) ==
    LET A == DOMAIN schedule
        B == DOMAIN b
        popped == DictDrop(schedule, (A \ B) \cup (B \ A))
    IN  [key \in B |->
            IF key \in DOMAIN popped
            THEN [popped[key] EXCEPT !.task = b[key].task, !.schedule = b[key].schedule]
            ELSE b[key]]

\* celery.beat.Scheduler.install_default_entries(data)
install_default_entries(data) ==
    IF default_entries /\ BackendCleanup \notin DOMAIN data
    THEN DictPut(data, BackendCleanup,
            ScheduleEntry(BackendCleanup, [kind |-> "crontab", value |-> 4]))
    ELSE data

\* DatabaseScheduler.setup_schedule
setup_schedule(schedule, tasks) ==
    install_default_entries(merge_inplace(schedule, database_schedule(tasks)))

(***************************************************************************)
(* DatabaseScheduler.tick.  super().tick() dispatches the due entries of   *)
(* the schedule it is given and keeps their names, tasks and schedules;    *)
(* the model counts its calls.                                             *)
(***************************************************************************)
\* faulty variant: refresh as soon as the interval has elapsed (>= instead of >)
refresh_due_inclusive == (now - last_updated) >= refresh_interval

refresh_due == (now - last_updated) > refresh_interval

tick ==
    \E tasks \in Orderings(EnabledRows) :
      LET refreshed == IF refresh_due THEN setup_schedule(store, tasks) ELSE store
      IN    /\ store' = refreshed
            /\ last_updated' = IF refresh_due THEN now ELSE last_updated
            /\ tick_log' = [op |-> "tick",
                            elapsed |-> now - last_updated,
                            reloaded |-> refresh_due,
                            built |-> IF refresh_due THEN database_schedule(tasks) ELSE EmptyDict,
                            before |-> store,
                            refreshed |-> refreshed,
                            updated_before |-> last_updated,
                            parent_ticks |-> 1]
            /\ UNCHANGED <<crudVars, auxVars, periodic_task, schedule_rows, default_entries,
                           refresh_interval, now>>

(***************************************************************************)
(* DatabaseScheduler.sync: `super().sync()' and nothing else, and          *)
(* celery.beat.Scheduler.sync is `pass'.  Beat calls it between ticks and  *)
(* when it closes.                                                         *)
(***************************************************************************)
sync ==
    /\ tick_log' = [op |-> "sync"]
    /\ UNCHANGED <<crudVars, auxVars, periodic_task, schedule_rows, default_entries,
                   refresh_interval, store, last_updated, now>>

(***************************************************************************)
(* The environment of the scheduler: the wall clock, and the other         *)
(* writers of the celery_periodic_task and schedule tables.                *)
(***************************************************************************)
TimePasses ==
    /\ now < MaxTime
    /\ now' = now + 1
    /\ tick_log' = NoTick
    /\ UNCHANGED <<crudVars, auxVars, periodic_task, schedule_rows, default_entries,
                   refresh_interval, store, last_updated>>

InsertPeriodicTask ==
    \E i \in RowIds, name \in TaskNames, enabled \in BOOLEAN,
       task_type \in TaskTypes, schedule_id \in ScheduleIds :
        /\ ~periodic_task[i].present
        /\ periodic_task' = [periodic_task EXCEPT
                                ![i] = PeriodicTask(name, enabled, i, task_type, schedule_id)]
        /\ tick_log' = NoTick
        /\ UNCHANGED <<crudVars, auxVars, schedule_rows, default_entries, refresh_interval,
                       store, last_updated, now>>

SetEnabled ==
    \E i \in RowIds :
        /\ periodic_task[i].present
        /\ periodic_task' = [periodic_task EXCEPT ![i].enabled = ~@]
        /\ tick_log' = NoTick
        /\ UNCHANGED <<crudVars, auxVars, schedule_rows, default_entries, refresh_interval,
                       store, last_updated, now>>

DeletePeriodicTask ==
    \E i \in RowIds :
        /\ periodic_task[i].present
        /\ periodic_task' = [periodic_task EXCEPT ![i] = NoRow]
        /\ tick_log' = NoTick
        /\ UNCHANGED <<crudVars, auxVars, schedule_rows, default_entries, refresh_interval,
                       store, last_updated, now>>

InsertSchedule ==
    \E t \in TaskTypes, s \in ScheduleIds :
        /\ s \notin schedule_rows[t]
        /\ schedule_rows' = [schedule_rows EXCEPT ![t] = @ \cup {s}]
        /\ tick_log' = NoTick
        /\ UNCHANGED <<crudVars, auxVars, periodic_task, default_entries, refresh_interval,
                       store, last_updated, now>>

DeleteSchedule ==
    \E t \in TaskTypes, s \in ScheduleIds :
        /\ s \in schedule_rows[t]
        /\ schedule_rows' = [schedule_rows EXCEPT ![t] = @ \ {s}]
        /\ tick_log' = NoTick
        /\ UNCHANGED <<crudVars, auxVars, periodic_task, default_entries, refresh_interval,
                       store, last_updated, now>>


MaxIds == 2
MaxClock == 1
MaxIdList == 2
MaxBatch == 2

Ids == 1..MaxIds
\* Python's None where an id is expected
NoneId == 0
Names == {"a", "b"}
DataFields == {"name", "desc_test"}

\* a stored record of the model: its data fields and update_time (the id is the key)
Row(name, desc_test, update_time) ==
    [name |-> name, desc_test |-> desc_test, update_time |-> update_time]

\* what a call returns: None, or a model instance
NoneValue == [none |-> TRUE]
Instance(id, row) ==
    [none |-> FALSE, id |-> id, name |-> row.name, desc_test |-> row.desc_test,
     update_time |-> row.update_time]

Return(value) == [raised |-> "", value |-> value]
Raise(exception) == [raised |-> exception, value |-> NoneValue]

\* crud_log: the call (its name and its arguments, auto_commit apart) and its outcome
CallLog(call, out) == [call |-> call, out |-> out]
NoCall == CallLog([op |-> "none"], Return(NoneValue))

(***************************************************************************)
(* The arguments of create and update: a dict, a schema or a model         *)
(* instance.  `data' holds the fields that were given (set) explicitly;    *)
(* a model instance may carry an id of its own.                            *)
(***************************************************************************)
CreateData ==
    {[name |-> "a"], [name |-> "b", desc_test |-> "d"]}

CreateInputs ==
    [kind : {"dict", "schema"}, data : CreateData, id : {NoneId}] \cup
    [kind : {"model"}, data : CreateData, id : Ids \cup {NoneId}]

UpdateData ==
    {[name |-> "b"], [desc_test |-> "d"], [name |-> "a", desc_test |-> ""]}

\* a dict or an update schema sets some fields, a model instance sets them all
UpdateInputs ==
    [kind : {"dict"}, data : UpdateData] \cup
    [kind : {"schema"}, data : {d \in UpdateData : DOMAIN d # DataFields}] \cup
    [kind : {"model"}, data : {d \in UpdateData : DOMAIN d = DataFields}]

\* the declared default of desc_test: of Test, of TestDocument
desc_default == IF engine = "sql" THEN "" ELSE "test desc"

\* model.model_validate(...): the given fields, the declared defaults for the others
model_validate(data, t) ==
    Row(data.name, IF "desc_test" \in DOMAIN data THEN data.desc_test ELSE desc_default, t)

\* Test.name is unique: another row of the session holds the name
name_taken(session, _id, name) ==
    \E other \in DOMAIN session \ {_id} : session[other].name = name

\* setattr(current_model, field, value) for every item of the update dict
setattr_all(current, data) ==
    [f \in DataFields |-> IF f \in DOMAIN data THEN data[f] ELSE current[f]]

\* ids (uuid7 / ObjectId) the database has never stored
FreshIds(stored) == Ids \ stored

\* the filters of a query: none, or one condition on a column
Filters == {"none", "name_a", "desc_d"}

\* whether a record passes the filters (WHERE ... / find(...))
matches(filter, row) ==
    CASE filter = "none" -> TRUE
      [] filter = "name_a" -> row.name = "a"
      [] filter = "desc_d" -> row.desc_test = "d"

\* get_count of either CRUD: SELECT count(*) ... WHERE / find(...).count()
get_count(records, filter) ==
    Cardinality({i \in DOMAIN records : matches(filter, records[i])})

(***************************************************************************)
(* BaseSQLModelCRUD (src/crud/base.py).  Every operator returns the        *)
(* session's rows and the committed rows after the call, and its outcome.  *)
(***************************************************************************)
SqlResult(session, committed, out) ==
    [session |-> session, committed |-> committed, out |-> out]

\* faulty variant: only the call's auto_commit decides
sql_commit_call_only(ac, session, committed) ==
    IF ac THEN session ELSE committed

\* BaseSQLModelCRUD.commit: auto_commit = auto_commit or self.auto_commit
sql_commit(ac, session, committed) ==
    IF ac \/ auto_commit THEN session ELSE committed

\* faulty variant: a missing record is answered with None whatever nullable says
sql_get_always_none(session, _id, nullable) ==
    IF _id \in DOMAIN session THEN Return(Instance(_id, session[_id])) ELSE Return(NoneValue)

\* BaseSQLModelCRUD.get
sql_get(session, _id, nullable) ==
    LET response == IF _id \in DOMAIN session THEN Instance(_id, session[_id]) ELSE NoneValue
    IN  IF ~nullable /\ response.none
        THEN Raise("NotFoundException")
        ELSE Return(response)

\* faulty variant: the new row is added to the session, its desc_test left at the default
sql_create_defaults(create_in, validate, ac, fresh) ==
    LET id == IF create_in.id = NoneId THEN fresh ELSE create_in.id
        added == DictPut(sql_session, id, Row(create_in.data.name, "", clock))
    IN  SqlResult(added, sql_commit(ac, added, sql_committed),
                  Return(Instance(id, added[id])))

\* faulty variant: what is not a model instance is added without validation
sql_create_unchecked(create_in, validate, ac, fresh) ==
    LET id == IF create_in.id = NoneId THEN fresh ELSE create_in.id
        row == model_validate(create_in.data, clock)
    IN  IF id \in DOMAIN sql_session \/ name_taken(sql_session, id, row.name)
        THEN SqlResult(sql_committed, sql_committed, Raise("ExistsException"))
        ELSE LET added == DictPut(sql_session, id, row)
             IN  SqlResult(added, sql_commit(ac, added, sql_committed),
                           Return(Instance(id, row)))

\* BaseSQLModelCRUD.create
sql_create(create_in, validate, ac, fresh) ==
    IF ~validate /\ create_in.kind # "model"
    THEN SqlResult(sql_session, sql_committed, Raise("TypeError"))
    ELSE LET id == IF create_in.id = NoneId THEN fresh ELSE create_in.id
             row == model_validate(create_in.data, clock)
         IN  IF id \in DOMAIN sql_session \/ name_taken(sql_session, id, row.name)
             THEN \* the INSERT fails at flush with IntegrityError:
                  \* session.rollback(), ExistsException
                  SqlResult(sql_committed, sql_committed, Raise("ExistsException"))
             ELSE LET added == DictPut(sql_session, id, row)
                  IN  SqlResult(added, sql_commit(ac, added, sql_committed),
                                Return(Instance(id, row)))

\* BaseModel.serializable_dict(self, by_alias=True): the keywords it accepts
serializable_dict_keywords == {"by_alias"}

\* BaseSQLModelCRUD.update; current_model is the session's instance of row _id.
\* The UPDATE a flush emits sets update_time (onupdate) when a column changed.
sql_update(_id, update_in, ac) ==
    IF update_in.kind # "dict" /\ ~({"exclude_unset", "by_alias"} \subseteq serializable_dict_keywords)
    THEN SqlResult(sql_session, sql_committed, Raise("TypeError"))
    ELSE LET current == sql_session[_id]
             set == setattr_all(current, update_in.data)
             dirty == set.name # current.name \/ set.desc_test # current.desc_test
             row == Row(set.name, set.desc_test,
                        IF dirty THEN clock ELSE current.update_time)
             flushed == [sql_session EXCEPT ![_id] = row]
         IN  IF name_taken(sql_session, _id, row.name)
             THEN \* create(current_model): IntegrityError at flush, rollback
                  SqlResult(sql_committed, sql_committed, Raise("ExistsException"))
             ELSE SqlResult(flushed, sql_commit(ac, flushed, sql_committed),
                            Return(Instance(_id, row)))

\* faulty variant: the record is returned but stays in the session
sql_delete_keep(_id, ac) ==
    SqlResult(sql_session, sql_commit(ac, sql_session, sql_committed),
              sql_get(sql_session, _id, FALSE))

\* BaseSQLModelCRUD.delete
sql_delete(_id, ac) ==
    LET response == sql_get(sql_session, _id, FALSE)
    IN  IF response.raised # ""
        THEN SqlResult(sql_session, sql_committed, response)
        ELSE LET deleted == DictDrop(sql_session, {_id})
             IN  SqlResult(deleted, sql_commit(ac, deleted, sql_committed), response)

\* faulty variant: DELETE without the WHERE id IN (...) clause
sql_delete_all_rows(ids, ac) ==
    SqlResult(EmptyDict, sql_commit(ac, EmptyDict, sql_committed), Return(NoneValue))

\* BaseSQLModelCRUD.delete_all
sql_delete_all(ids, ac) ==
    LET deleted == DictDrop(sql_session, Range(ids))
    IN  SqlResult(deleted, sql_commit(ac, deleted, sql_committed), Return(NoneValue))

(***************************************************************************)
(* BaseBeanieCRUD (src/crud/crud_beanie.py).  Every operator returns the   *)
(* collection after the call, and the call's outcome.                      *)
(***************************************************************************)
BeanieResult(documents, out) == [documents |-> documents, out |-> out]

\* BaseBeanieCRUD.get
beanie_get(documents, _id, nullable) ==
    IF _id = NoneId
    THEN Raise("InvalidParameterError")
    ELSE LET response == IF _id \in DOMAIN documents
                         THEN Instance(_id, documents[_id]) ELSE NoneValue
         IN  IF ~nullable /\ response.none
             THEN Raise("NotFoundException")
             ELSE Return(response)

\* create_in.model_dump(): every field of the schema or document, as a dict
model_dump(create_in) ==
    [kind |-> "dict",
     data |-> [name |-> create_in.data.name,
               desc_test |-> IF "desc_test" \in DOMAIN create_in.data
                             THEN create_in.data.desc_test ELSE desc_default],
     id |-> create_in.id]

\* BaseBeanieCRUD.create: insert of the validated document; MongoDB gives a
\* document without id a new ObjectId and rejects a stored one
beanie_create(create_in, fresh) ==
    LET dumped == IF create_in.kind # "dict" THEN model_dump(create_in) ELSE create_in
        id == IF dumped.id = NoneId THEN fresh ELSE dumped.id
        document == model_validate(dumped.data, clock)
    IN  IF id \in DOMAIN collection
        THEN BeanieResult(collection, Raise("DuplicateKeyError"))
        ELSE BeanieResult(DictPut(collection, id, document), Return(Instance(id, document)))

\* BaseBeanieCRUD.update; current_model is the stored document _id.  replace()
\* runs Document.set_update_time (before_event(Replace)) and writes the document.
beanie_update(_id, update_in) ==
    LET data == update_in.data   \* a dict, or model_dump(exclude_unset=True)
        set == setattr_all(collection[_id], data)
        document == Row(set.name, set.desc_test, clock)
    IN  BeanieResult([collection EXCEPT ![_id] = document], Return(Instance(_id, document)))

\* BaseBeanieCRUD.delete
beanie_delete(_id) ==
    IF _id = NoneId
    THEN BeanieResult(collection, Raise("InvalidParameterError"))
    ELSE LET delete_model == beanie_get(collection, _id, FALSE)
         IN  IF delete_model.raised # ""
             THEN BeanieResult(collection, delete_model)
             ELSE BeanieResult(DictDrop(collection, {_id}), delete_model)

\* BaseBeanieCRUD.delete_all: one DeleteOne per id that is not None;
\* bulk_write of an empty list of statements raises InvalidOperation
beanie_delete_all(ids) ==
    IF ids = <<>>
    THEN BeanieResult(collection, Raise("InvalidParameterError"))
    ELSE LET statements == Range(ids) \ {NoneId}
         IN  IF statements = {}
             THEN BeanieResult(collection, Raise("InvalidOperation"))
             ELSE BeanieResult(DictDrop(collection, statements), Return(NoneValue))

(***************************************************************************)
(* The calls of the CRUD as actions.  XCall(arguments) is one call with    *)
(* its arguments; X is the call with any arguments.                        *)
(***************************************************************************)
IdLists(S) == UNION {[1..n -> S] : n \in 0..MaxIdList}

SqlStep(r, call) ==
    /\ engine = "sql"
    /\ sql_session' = r.session
    /\ sql_committed' = r.committed
    /\ crud_log' = CallLog(call, r.out)
    /\ UNCHANGED <<schedVars, auxVars, engine, auto_commit, collection, clock>>

BeanieStep(r, call) ==
    /\ engine = "beanie"
    /\ collection' = r.documents
    /\ crud_log' = CallLog(call, r.out)
    /\ UNCHANGED <<schedVars, auxVars, engine, auto_commit, sql_session, sql_committed, clock>>

\* the id a call generates, when its argument brings none
FreshFor(create_in, stored) ==
    IF create_in.id = NoneId THEN FreshIds(stored) ELSE {NoneId}

SqlGetCall(_id, nullable) ==
    SqlStep(SqlResult(sql_session, sql_committed, sql_get(sql_session, _id, nullable)),
            [op |-> "get", id |-> _id, nullable |-> nullable])

SqlGet ==
    \E _id \in Ids, nullable \in BOOLEAN : SqlGetCall(_id, nullable)

SqlCreateCall(create_in, validate, ac, fresh) ==
    SqlStep(sql_create(create_in, validate, ac, fresh),
            [op |-> "create", create_in |-> create_in, validate |-> validate])

SqlCreate ==
    \E create_in \in CreateInputs, validate \in BOOLEAN, ac \in BOOLEAN :
       \E fresh \in FreshFor(create_in, DOMAIN sql_session \cup DOMAIN sql_committed) :
          SqlCreateCall(create_in, validate, ac, fresh)

SqlUpdateCall(_id, update_in, ac) ==
    SqlStep(sql_update(_id, update_in, ac),
            [op |-> "update", id |-> _id, update_in |-> update_in])

SqlUpdate ==
    \E _id \in DOMAIN sql_session, update_in \in UpdateInputs, ac \in BOOLEAN :
       SqlUpdateCall(_id, update_in, ac)

SqlDeleteCall(_id, ac) ==
    SqlStep(sql_delete(_id, ac), [op |-> "delete", id |-> _id])

SqlDelete ==
    \E _id \in Ids, ac \in BOOLEAN : SqlDeleteCall(_id, ac)

SqlDeleteAllCall(ids, ac) ==
    SqlStep(sql_delete_all(ids, ac), [op |-> "delete_all", ids |-> ids])

SqlDeleteAll ==
    \E ids \in IdLists(Ids), ac \in BOOLEAN : SqlDeleteAllCall(ids, ac)

\* the caller commits the session itself ("you need to commit manually")
CallerCommit ==
    /\ engine = "sql"
    /\ sql_committed' = sql_session
    /\ crud_log' = CallLog([op |-> "commit"], Return(NoneValue))
    /\ UNCHANGED <<schedVars, auxVars, engine, auto_commit, sql_session, collection, clock>>

\* the request ends: `async with AsyncSessionLocal() as session' closes the
\* session, what it did not commit is rolled back, the next request starts
\* from the committed rows
EndSession ==
    /\ engine = "sql"
    /\ sql_session' = sql_committed
    /\ crud_log' = CallLog([op |-> "end_session"], Return(NoneValue))
    /\ UNCHANGED <<schedVars, auxVars, engine, auto_commit, sql_committed, collection, clock>>

BeanieGetCall(_id, nullable) ==
    BeanieStep(BeanieResult(collection, beanie_get(collection, _id, nullable)),
               [op |-> "get", id |-> _id, nullable |-> nullable])

BeanieGet ==
    \E _id \in Ids \cup {NoneId}, nullable \in BOOLEAN : BeanieGetCall(_id, nullable)

BeanieCreateCall(create_in, fresh) ==
    BeanieStep(beanie_create(create_in, fresh), [op |-> "create", create_in |-> create_in])

BeanieCreate ==
    \E create_in \in CreateInputs :
       \E fresh \in FreshFor(create_in, DOMAIN collection) :
          BeanieCreateCall(create_in, fresh)

BeanieUpdateCall(_id, update_in) ==
    BeanieStep(beanie_update(_id, update_in),
               [op |-> "update", id |-> _id, update_in |-> update_in])

BeanieUpdate ==
    \E _id \in DOMAIN collection, update_in \in UpdateInputs :
       BeanieUpdateCall(_id, update_in)

BeanieDeleteCall(_id) ==
    BeanieStep(beanie_delete(_id), [op |-> "delete", id |-> _id])

BeanieDelete ==
    \E _id \in Ids \cup {NoneId} : BeanieDeleteCall(_id)

BeanieDeleteAllCall(ids) ==
    BeanieStep(beanie_delete_all(ids), [op |-> "delete_all", ids |-> ids])

BeanieDeleteAll ==
    \E ids \in IdLists(Ids \cup {NoneId}) : BeanieDeleteAllCall(ids)

ClockTick ==
    /\ clock < MaxClock
    /\ clock' = clock + 1
    /\ crud_log' = CallLog([op |-> "clock"], Return(NoneValue))
    /\ UNCHANGED <<schedVars, auxVars, engine, auto_commit, sql_session, sql_committed, collection>>

(***************************************************************************)
(* Queries: get_paginate of both CRUD classes, get_by_ids of                *)
(* BaseSQLModelCRUD.  A query without ORDER BY / sort returns the matching  *)
(* records in an order the database chooses; a sort leaves the order of     *)
(* records with equal keys to the database.  An operator therefore gives    *)
(* the set of the responses the call can return.                            *)
(***************************************************************************)
MaxPage == 2
MaxSize == 2

Pages == 1..MaxPage
Sizes == 0..MaxSize

\* order_by: None, or a column and a direction
OrderBys == {"none", "id_asc", "id_desc", "name_asc"}

name_rank(name) == IF name = "a" THEN 1 ELSE 2

\* the sort key of record i under order_by (descending as the negated key)
sort_key(records, i, order_by) ==
    CASE order_by = "id_asc" -> i
      [] order_by = "id_desc" -> 0 - i
      [] order_by = "name_asc" -> name_rank(records[i].name)
      [] OTHER -> 0

\* the orders in which the database can return the records `ids' under order_by
result_orders(records, ids, order_by) ==
    {s \in Orderings(ids) :
        \A j, k \in 1..Len(s) :
            j < k => sort_key(records, s[j], order_by) <= sort_key(records, s[k], order_by)}

Instances(records, s) == [k \in 1..Len(s) |-> Instance(s[k], records[s[k]])]

\* elements from..to (1-based, both inclusive) of seq, as far as they exist
Slice(seq, from, to) ==
    LET last == IF to < Len(seq) THEN to ELSE Len(seq)
    IN  [k \in 1..(last - from + 1) |-> seq[from + k - 1]]

\* schemas.response.PaginatedResponse
PaginatedResponse(records, total, page, page_size) ==
    [records |-> records, total |-> total, page |-> page, page_size |-> page_size]

matching(records, filter) == {i \in DOMAIN records : matches(filter, records[i])}

\* SQL: OFFSET offset LIMIT limit
sql_offset_limit(rows, offset, limit) == Slice(rows, offset + 1, offset + limit)

\* MongoDB: skip(skip).limit(limit); a limit of 0 is no limit
mongo_skip_limit(documents, skip, limit) ==
    Slice(documents, skip + 1, IF limit = 0 THEN Len(documents) ELSE skip + limit)

\* BaseSQLModelCRUD.get_paginate
sql_get_paginate(session, filter, page, size, order_by) ==
    {PaginatedResponse(
         sql_offset_limit(Instances(session, s), (page - 1) * size, size),
         get_count(session, filter), page, size) :
       s \in result_orders(session, matching(session, filter), order_by)}

\* BaseBeanieCRUD.get_paginate
beanie_get_paginate(documents, filter, page, size, order_by) ==
    {PaginatedResponse(
         mongo_skip_limit(Instances(documents, s), (page - 1) * size, size),
         get_count(documents, filter), page, size) :
       s \in result_orders(documents, matching(documents, filter), order_by)}

\* faulty variant: one record for every element of ids, repeated ids included
sql_get_by_ids_per_element(session, ids, order_by) ==
    LET found == SelectSeq(ids, LAMBDA i : i \in DOMAIN session)
    IN  {Instances(session, found)}

\* BaseSQLModelCRUD.get_by_ids: WHERE id IN (ids)
sql_get_by_ids(session, ids, order_by) ==
    {Instances(session, s) :
       s \in result_orders(session, {i \in DOMAIN session : i \in Range(ids)}, order_by)}

\* a query leaves the records as they are: a behaviour makes one query, on
\* the records it starts from
NoQueryYet == crud_log = NoCall

SqlGetPaginate ==
    /\ NoQueryYet
    /\ \E filter \in Filters, page \in Pages, size \in Sizes, order_by \in OrderBys :
          \E response \in sql_get_paginate(sql_session, filter, page, size, order_by) :
             SqlStep(SqlResult(sql_session, sql_committed, Return(response)),
                     [op |-> "get_paginate", filter |-> filter, page |-> page,
                      size |-> size, order_by |-> order_by])

BeanieGetPaginate ==
    /\ NoQueryYet
    /\ \E filter \in Filters, page \in Pages, size \in Sizes, order_by \in OrderBys :
          \E response \in beanie_get_paginate(collection, filter, page, size, order_by) :
             BeanieStep(BeanieResult(collection, Return(response)),
                        [op |-> "get_paginate", filter |-> filter, page |-> page,
                         size |-> size, order_by |-> order_by])

SqlGetByIds ==
    /\ NoQueryYet
    /\ \E ids \in IdLists(Ids), order_by \in OrderBys :
          \E response \in sql_get_by_ids(sql_session, ids, order_by) :
             SqlStep(SqlResult(sql_session, sql_committed, Return(response)),
                     [op |-> "get_by_ids", ids |-> ids, order_by |-> order_by])

(***************************************************************************)
(* BaseBeanieCRUD: get_by_ids, update_by_id and the batch calls.           *)
(***************************************************************************)
\* BaseBeanieCRUD.get_by_ids: the outcomes the call can have
beanie_get_by_ids(documents, ids, order_by) ==
    IF ids = <<>>
    THEN {Raise("InvalidParameterError")}
    ELSE {Return(Instances(documents, s)) :
            s \in result_orders(documents, DOMAIN documents \cap Range(ids), order_by)}

\* Document.insert_many: an ordered insert, which stops at the first document
\* whose _id is stored already
RECURSIVE insert_many(_, _)
insert_many(documents, inserts) ==
    IF inserts = <<>>
    THEN BeanieResult(documents, Return(NoneValue))
    ELSE LET document == Head(inserts)
         IN  IF document.id \in DOMAIN documents
             THEN BeanieResult(documents, Raise("BulkWriteError"))
             ELSE insert_many(DictPut(documents, document.id, document.row), Tail(inserts))

\* the items of the batches of create_all
CreateItems ==
    {[kind |-> "dict", data |-> [name |-> "a"], id |-> NoneId],
     [kind |-> "model", data |-> [name |-> "b", desc_test |-> "d"], id |-> 1]}

Batches(items) == UNION {[1..n -> items] : n \in 0..MaxBatch}

\* the ObjectIds MongoDB gives to the documents of a batch that bring none: new
\* ids, different from each other
FreshForAll(creates_in, stored) ==
    {fresh \in [1..Len(creates_in) -> Ids \cup {NoneId}] :
        /\ \A k \in 1..Len(creates_in) :
              IF creates_in[k].id = NoneId
              THEN fresh[k] \in FreshIds(stored \cup {creates_in[j].id : j \in 1..Len(creates_in)})
              ELSE fresh[k] = NoneId
        /\ \A j, k \in 1..Len(creates_in) :
              (j # k /\ fresh[j] # NoneId) => fresh[j] # fresh[k]}

\* self.model.model_validate(item if isinstance(item, dict) else item.model_dump())
\* for every item of creates_in
validate_all(creates_in, fresh) ==
    [k \in 1..Len(creates_in) |->
       LET item == creates_in[k]
           dumped == IF item.kind # "dict" THEN model_dump(item) ELSE item
       IN  [id |-> IF dumped.id = NoneId THEN fresh[k] ELSE dumped.id,
            row |-> model_validate(dumped.data, clock)]]

\* faulty variant: an empty batch is not refused and goes to insert_many
beanie_create_all_unchecked(creates_in, fresh) ==
    insert_many(collection, validate_all(creates_in, fresh))

\* BaseBeanieCRUD.create_all
beanie_create_all(creates_in, fresh) ==
    IF creates_in = <<>>
    THEN BeanieResult(collection, Raise("InvalidParameterError"))
    ELSE LET update_models == validate_all(creates_in, fresh)
         IN  insert_many(collection, update_models)

\* BaseBeanieCRUD.update_by_id
beanie_update_by_id(_id, update_in) ==
    IF _id = NoneId
    THEN BeanieResult(collection, Raise("InvalidParameterError"))
    ELSE LET update_model == beanie_get(collection, _id, FALSE)
         IN  IF update_model.raised # ""
             THEN BeanieResult(collection, update_model)
             ELSE beanie_update(_id, update_in)

\* the items of the batches of update_all: a dict with the fields to set and
\* the id under the key "id" or "_id", or without id
UpdateItems ==
    {[key |-> "id", id |-> 1, data |-> [name |-> "b"]],
     [key |-> "_id", id |-> 2, data |-> [desc_test |-> "d"]],
     [key |-> "id", id |-> 1, data |-> [name |-> "a", desc_test |-> ""]],
     [key |-> "none", id |-> NoneId, data |-> [name |-> "b"]]}

\* update_info.pop("id", None) or update_info.pop("_id", None)
pop_id(update_info) == IF update_info.key \in {"id", "_id"} THEN update_info.id ELSE NoneId

\* collection.bulk_write of UpdateOne({"_id": _id}, {"$set": update_info}): in
\* order, each on the document with that _id if there is one
RECURSIVE bulk_write_updates(_, _)
bulk_write_updates(documents, statements) ==
    IF statements = <<>>
    THEN documents
    ELSE LET statement == Head(statements)
             updated ==
                 IF statement.id \in DOMAIN documents
                 THEN LET set == setattr_all(documents[statement.id], statement.data)
                      IN  [documents EXCEPT ![statement.id] =
                              Row(set.name, set.desc_test, documents[statement.id].update_time)]
                 ELSE documents
         IN  bulk_write_updates(updated, Tail(statements))

\* faulty variant: every update is written as soon as its id is read, so the
\* updates before an item without id are applied
beanie_update_all_eager(updates_in) ==
    IF updates_in = <<>>
    THEN BeanieResult(collection, Raise("InvalidParameterError"))
    ELSE LET missing == {k \in 1..Len(updates_in) : pop_id(updates_in[k]) = NoneId}
             first == IF missing = {} THEN Len(updates_in) + 1
                      ELSE CHOOSE k \in missing : \A j \in missing : k <= j
             written == bulk_write_updates(collection, SubSeq(updates_in, 1, first - 1))
         IN  IF missing # {}
             THEN BeanieResult(written, Raise("ValueError"))
             ELSE BeanieResult(written, Return(NoneValue))

\* BaseBeanieCRUD.update_all
beanie_update_all(updates_in) ==
    IF updates_in = <<>>
    THEN BeanieResult(collection, Raise("InvalidParameterError"))
    ELSE IF \E k \in 1..Len(updates_in) : pop_id(updates_in[k]) = NoneId
         THEN BeanieResult(collection, Raise("ValueError"))
         ELSE BeanieResult(bulk_write_updates(collection, updates_in), Return(NoneValue))

BeanieGetByIds ==
    \E ids \in IdLists(Ids \cup {NoneId}), order_by \in {"none", "id_desc"} :
       \E out \in beanie_get_by_ids(collection, ids, order_by) :
          BeanieStep(BeanieResult(collection, out),
                     [op |-> "get_by_ids", ids |-> ids, order_by |-> order_by])

BeanieCreateAll ==
    \E creates_in \in Batches(CreateItems) :
       \E fresh \in FreshForAll(creates_in, DOMAIN collection) :
          BeanieStep(beanie_create_all(creates_in, fresh),
                     [op |-> "create_all", creates_in |-> creates_in])

BeanieUpdateById ==
    \E _id \in Ids \cup {NoneId}, update_in \in {u \in UpdateInputs : u.kind # "model"} :
       BeanieStep(beanie_update_by_id(_id, update_in),
                  [op |-> "update_by_id", id |-> _id, update_in |-> update_in])

BeanieUpdateAll ==
    \E updates_in \in Batches(UpdateItems) :
       BeanieStep(beanie_update_all(updates_in),
                  [op |-> "update_all", updates_in |-> updates_in])

(***************************************************************************)
(* BaseSQLModelCRUD: create_all, update_by_id and update_all.              *)
(***************************************************************************)
\* self.model.model_validate(create_item) for every item of create_in
sql_validate_all(create_in, fresh) ==
    [k \in 1..Len(create_in) |->
       [id |-> IF create_in[k].id = NoneId THEN fresh[k] ELSE create_in[k].id,
        row |-> model_validate(create_in[k].data, clock)]]

\* whether the INSERTs of a flush break the primary key or the unique name
insert_conflict(session, inserts) ==
    \/ \E k \in 1..Len(inserts) :
          \/ inserts[k].id \in DOMAIN session
          \/ \E other \in DOMAIN session : session[other].name = inserts[k].row.name
    \/ \E j, k \in 1..Len(inserts) :
          /\ j # k
          /\ \/ inserts[j].id = inserts[k].id
             \/ inserts[j].row.name = inserts[k].row.name

RECURSIVE add_all(_, _)
add_all(session, inserts) ==
    IF inserts = <<>> THEN session
    ELSE add_all(DictPut(session, Head(inserts).id, Head(inserts).row), Tail(inserts))

\* BaseSQLModelCRUD.create_all
sql_create_all(create_in, ac, fresh) ==
    LET inserts == sql_validate_all(create_in, fresh)
    IN  IF insert_conflict(sql_session, inserts)
        THEN \* IntegrityError at flush: session.rollback(), ExistsException
             SqlResult(sql_committed, sql_committed, Raise("ExistsException"))
        ELSE LET added == add_all(sql_session, inserts)
             IN  SqlResult(added, sql_commit(ac, added, sql_committed), Return(NoneValue))

\* BaseSQLModelCRUD.update_by_id
sql_update_by_id(_id, update_in, ac) ==
    LET response == sql_get(sql_session, _id, FALSE)
    IN  IF response.raised # ""
        THEN SqlResult(sql_session, sql_committed, response)
        ELSE sql_update(_id, update_in, ac)

\* the loop of BaseSQLModelCRUD.update_all: one UPDATE ... WHERE id = _id per
\* item, executed in the session's transaction as soon as it is built
RECURSIVE sql_update_all_loop(_, _, _)
sql_update_all_loop(session, update_in, ac) ==
    IF update_in = <<>>
    THEN SqlResult(session, sql_commit(ac, session, sql_committed), Return(NoneValue))
    ELSE LET update_info == Head(update_in)
             _id == IF update_info.key = "id" THEN update_info.id ELSE NoneId
         IN  IF _id = NoneId
             THEN SqlResult(session, sql_committed, Raise("ValueError"))
             ELSE IF _id \notin DOMAIN session
             THEN \* result.rowcount == 0
                  SqlResult(session, sql_committed, Raise("NotFoundException"))
             ELSE LET set == setattr_all(session[_id], update_info.data)
                      row == Row(set.name, set.desc_test, clock)
                  IN  IF name_taken(session, _id, row.name)
                      THEN \* IntegrityError is an SQLAlchemyError: rollback, RuntimeError
                           SqlResult(sql_committed, sql_committed, Raise("RuntimeError"))
                      ELSE sql_update_all_loop([session EXCEPT ![_id] = row],
                                               Tail(update_in), ac)

\* BaseSQLModelCRUD.update_all
sql_update_all(update_in, ac) == sql_update_all_loop(sql_session, update_in, ac)

SqlCreateAllCall(create_in, ac, fresh) ==
    SqlStep(sql_create_all(create_in, ac, fresh),
            [op |-> "create_all", creates_in |-> create_in])

SqlCreateAll ==
    \E create_in \in Batches(CreateItems), ac \in BOOLEAN :
       \E fresh \in FreshForAll(create_in, DOMAIN sql_session \cup DOMAIN sql_committed) :
          SqlCreateAllCall(create_in, ac, fresh)

SqlUpdateByIdCall(_id, update_in, ac) ==
    SqlStep(sql_update_by_id(_id, update_in, ac),
            [op |-> "update_by_id", id |-> _id, update_in |-> update_in])

SqlUpdateById ==
    \E _id \in Ids, update_in \in {u \in UpdateInputs : u.kind # "model"}, ac \in BOOLEAN :
       SqlUpdateByIdCall(_id, update_in, ac)

\* the rows a call leaves in the session as neither the session nor the
\* database had them before it: what it has written and not committed
left_pending(r) ==
    {i \in DOMAIN r.session \cap DOMAIN sql_session :
        /\ r.session[i] # sql_session[i]
        /\ i \in DOMAIN r.committed => r.session[i] # r.committed[i]}

SqlUpdateAllCall(update_in, ac) ==
    SqlStep(sql_update_all(update_in, ac),
            [op |-> "update_all", updates_in |-> update_in,
             left |-> left_pending(sql_update_all(update_in, ac))])

SqlUpdateAll ==
    \E update_in \in Batches(UpdateItems), ac \in BOOLEAN : SqlUpdateAllCall(update_in, ac)

(***************************************************************************)
(* get_next_sequence (src/models/counter.py): one find_one_and_update with *)
(* upsert=True on the documents of a key.  MongoDB runs the update of a    *)
(* matching document as one atomic step; when no document matches, the     *)
(* operation inserts one, and collection "counter" has no unique index on  *)
(* the key (Settings.indexes) that would make a second insert fail.        *)
(***************************************************************************)
MaxCallers == 3
MaxSequence == 6

Callers == 1..MaxCallers

\* Counter.seq of a new document
seq_default == 0

\* update={"$inc": {"seq": 1}}
inc(seq) == seq + 1

\* the filter matches a document: $inc on the first one, return_document=True
\* gives the document after the update
SequenceUpdate(c) ==
    /\ sequence_pc[c] = "idle"
    /\ counter # <<>>
    /\ Len(sequence_returned) < MaxSequence
    /\ counter' = [counter EXCEPT ![1] = inc(@)]
    /\ sequence_returned' = Append(sequence_returned, inc(counter[1]))
    /\ UNCHANGED <<sequenceOthers, sequence_pc>>

\* the filter matches no document: the operation goes on to the upsert
SequenceMiss(c) ==
    /\ sequence_pc[c] = "idle"
    /\ counter = <<>>
    /\ Len(sequence_returned) < MaxSequence
    /\ sequence_pc' = [sequence_pc EXCEPT ![c] = "upsert"]
    /\ UNCHANGED <<sequenceOthers, counter, sequence_returned>>

\* upsert=True: a new document of the key is inserted with the update applied
SequenceUpsert(c) ==
    /\ sequence_pc[c] = "upsert"
    /\ counter' = Append(counter, inc(seq_default))
    /\ sequence_returned' = Append(sequence_returned, inc(seq_default))
    /\ sequence_pc' = [sequence_pc EXCEPT ![c] = "idle"]
    /\ UNCHANGED sequenceOthers

(***************************************************************************)
(* verify_user_permission (src/deps/role.py)                               *)
(***************************************************************************)
RoleCodes == {"r1", "r2"}
Paths == {"/a", "/b"}

\* table users: one administrator and users with one role, two roles, no role
Users ==
    {[id |-> 1, is_admin |-> TRUE, roles |-> {"r1"}],
     [id |-> 2, is_admin |-> FALSE, roles |-> {"r1"}],
     [id |-> 3, is_admin |-> FALSE, roles |-> {"r1", "r2"}],
     [id |-> 4, is_admin |-> FALSE, roles |-> {}]}

NoAuthCall == [op |-> "none"]

\* RoleCRUD.get_role_by_codes: the roles whose code is among the codes
get_role_by_codes(codes) == codes \cap DOMAIN role_table

\* faulty variant: an administrator's permissions are looked up like anyone's
verify_user_permission_no_admin(user, path) ==
    LET cached == user.id \in DOMAIN permission_cache
        user_permission_list ==
            IF cached THEN permission_cache[user.id]
            ELSE UNION {role_table[code] : code \in get_role_by_codes(user.roles)}
    IN  [cache |-> IF ~cached /\ user_permission_list # {}
                   THEN DictPut(permission_cache, user.id, user_permission_list)
                   ELSE permission_cache,
         consulted |-> IF cached THEN {"redis"} ELSE {"redis", "roles"},
         out |-> IF path \notin user_permission_list
                 THEN Raise("PermissionDeniedException")
                 ELSE Return(user.id)]

\* verify_user_permission: the cache after the call, what the call consulted
\* and its outcome
verify_user_permission(user, path) ==
    IF user.is_admin
    THEN [cache |-> permission_cache, consulted |-> {}, out |-> Return(user.id)]
    ELSE LET cached == user.id \in DOMAIN permission_cache
             roles == get_role_by_codes(user.roles)
             user_permission_list ==
                 IF cached THEN permission_cache[user.id]
                 ELSE UNION {role_table[code] : code \in roles}
         IN  [cache |-> IF ~cached /\ user_permission_list # {}
                        THEN DictPut(permission_cache, user.id, user_permission_list)
                        ELSE permission_cache,
              consulted |-> IF cached THEN {"redis"} ELSE {"redis", "roles"},
              out |-> IF path \notin user_permission_list
                      THEN Raise("PermissionDeniedException")
                      ELSE Return(user.id)]

VerifyUserPermission ==
    \E user \in Users, path \in Paths :
       LET r == verify_user_permission(user, path)
       IN  /\ permission_cache' = r.cache
           /\ auth_log' = [op |-> "verify_user_permission", user |-> user.id, path |-> path,
                           consulted |-> r.consulted, out |-> r.out]
           /\ UNCHANGED <<authOthers, role_table>>

\* a role's interface_permissions are edited in table roles
RoleUpdate ==
    \E code \in RoleCodes, permissions \in SUBSET Paths :
       /\ role_table[code] # permissions
       /\ role_table' = [role_table EXCEPT ![code] = permissions]
       /\ auth_log' = [op |-> "role_update"]
       /\ UNCHANGED <<authOthers, permission_cache>>

(***************************************************************************)
(* user_login (src/services/auth.py) and parse_jwt_user (src/deps/auth.py) *)
(* with the functions of src/utils/security.py they call.                  *)
(***************************************************************************)
PlainPasswords == {"secret", "guess"}

\* hash_password: the bcrypt hash of a password, with its salt
hash_password(password, salt) == [salt |-> salt, digest |-> <<salt, password>>]

\* faulty variant: every password is taken for the stored one
check_password_any(password, hashed_password) == TRUE

\* check_password: bcrypt.checkpw hashes the password with the salt of the hash
check_password(password, hashed_password) ==
    hash_password(password, hashed_password.salt) = hashed_password

\* table users: username -> the stored hash of the password
UserPasswords == [alice |-> hash_password("secret", "s1"), bob |-> hash_password("guess", "s2")]

\* encrypt_message: the client's RSA encryption, base64-encoded; what a client
\* can send as password: a message encrypted with the server's public key or
\* with another key, or a string that is no base64 of a ciphertext
encrypt_message(public_key, message) == [rsa |-> public_key, message |-> message]

RsaPasswords ==
    {encrypt_message(k, m) : k \in {"server", "other"}, m \in PlainPasswords}
      \cup {[rsa |-> "none", message |-> "not base64"]}

\* decrypt_message with the server's private key: the message, or an exception
decrypt_message(encrypted_message) ==
    IF encrypted_message.rsa = "server"
    THEN Return(encrypted_message.message)
    ELSE Raise("ValueError")

\* decrypt_password: any exception of decrypt_message becomes BadRequestException
decrypt_password(rsa_password) ==
    LET password == decrypt_message(rsa_password)
    IN  IF password.raised # ""
        THEN [raised |-> "BadRequestException", detail |-> "Invalid username or password."]
        ELSE [raised |-> "", value |-> password.value]

\* def create_token(user, *, expires_delta=..., key=...): its positional parameters
create_token_positional == 1
\* def decode_token(token, *, key=...): its positional parameters
decode_token_positional == 1

\* create_access_token / create_refresh_token: create_token(user, EXP, KEY, JWT_ALG)
create_access_token(user, key) ==
    IF 4 > create_token_positional
    THEN [raised |-> "TypeError"]
    ELSE [raised |-> "", value |-> [jwt |-> key, sub |-> user, expired |-> FALSE]]

\* user_login for the user a username names
user_login(username, password) ==
    LET user_info == UserPasswords[username]
        decrypted_password == decrypt_password(password)
    IN  IF decrypted_password.raised # ""
        THEN decrypted_password
        ELSE IF ~check_password(decrypted_password.value, user_info)
        THEN [raised |-> "BadRequestException", detail |-> "Invalid username or password."]
        ELSE LET access_token == create_access_token(username, "access")
                 refresh_token == create_access_token(username, "refresh")
             IN  IF access_token.raised # "" THEN access_token
                 ELSE IF refresh_token.raised # "" THEN refresh_token
                 ELSE [raised |-> "",
                       value |-> [access_token |-> access_token.value,
                                  refresh_token |-> refresh_token.value]]

UserLogin ==
    \E username \in DOMAIN UserPasswords, password \in RsaPasswords :
       /\ auth_log' = [op |-> "user_login", username |-> username, password |-> password,
                       out |-> user_login(username, password)]
       /\ UNCHANGED <<authOthers, role_table, permission_cache>>

\* what a request can carry as bearer token: none, a string that is no JWT, or
\* a JWT signed with some key, expired or not
NoToken == [jwt |-> "none"]
Tokens ==
    {NoToken, [jwt |-> "malformed"]}
      \cup [jwt : {"access", "refresh"}, sub : DOMAIN UserPasswords, expired : BOOLEAN]

\* decode_token: jwt.decode checks the format and the signature (JoseError
\* becomes UnauthorizedException), not the exp claim
decode_token(token, key) ==
    IF token.jwt # key
    THEN Raise("UnauthorizedException")
    ELSE Return(token.sub)

\* parse_jwt_user: decode_token(token, auth_settings.ACCESS_TOKEN_KEY)
parse_jwt_user(token) ==
    IF token = NoToken
    THEN Raise("UnauthorizedException")
    ELSE IF 2 > decode_token_positional
    THEN Raise("TypeError")
    ELSE decode_token(token, "access")

ParseJwtUser ==
    \E token \in Tokens :
       /\ auth_log' = [op |-> "parse_jwt_user", token |-> token, out |-> parse_jwt_user(token)]
       /\ UNCHANGED <<authOthers, role_table, permission_cache>>

(***************************************************************************)
(* RedisManager (src/core/database.py).  connect and client are            *)
(* synchronous; disconnect and clear are coroutines that await the pools'  *)
(* disconnect() before they remove the entries, so other calls can run     *)
(* between their two halves.                                               *)
(***************************************************************************)
MaxPools == 3
MaxTasks == 2

PoolNames == {"default", "cache"}
Tasks == 1..MaxTasks
NoTask == [op |-> "none"]

\* RedisManager.connect
RedisConnect ==
    \E pool_name \in PoolNames :
       /\ IF pool_name \notin DOMAIN redis_pools
          THEN /\ redis_created < MaxPools
               /\ redis_created' = redis_created + 1
               /\ redis_pools' = DictPut(redis_pools, pool_name, redis_created + 1)
               /\ redis_clients' = DictPut(redis_clients, pool_name, redis_created + 1)
          ELSE UNCHANGED <<redis_pools, redis_clients, redis_created>>
       /\ redis_log' = [op |-> "connect", pool_name |-> pool_name,
                        raised |-> "", value |-> redis_pools'[pool_name]]
       /\ UNCHANGED <<redisOthers, redis_tasks, redis_disconnected>>

\* RedisManager.client
RedisClient ==
    \E pool_name \in PoolNames :
       /\ redis_log' = IF pool_name \notin DOMAIN redis_clients
                       THEN [op |-> "client", pool_name |-> pool_name,
                             raised |-> "RuntimeError", value |-> 0]
                       ELSE [op |-> "client", pool_name |-> pool_name,
                             raised |-> "", value |-> redis_clients[pool_name]]
       /\ UNCHANGED <<redisOthers, redis_pools, redis_clients, redis_created, redis_tasks,
                      redis_disconnected>>

\* RedisManager.disconnect, up to `await cls._pools[pool_name].disconnect()'
RedisDisconnectAwait ==
    \E task \in Tasks, pool_name \in PoolNames :
       /\ redis_tasks[task] = NoTask
       /\ redis_tasks' = IF pool_name \in DOMAIN redis_pools
                         THEN [redis_tasks EXCEPT ![task] = [op |-> "disconnect", pool_name |-> pool_name]]
                         ELSE redis_tasks
       /\ redis_disconnected' = IF pool_name \in DOMAIN redis_pools
                                THEN redis_disconnected \cup {redis_pools[pool_name]}
                                ELSE redis_disconnected
       /\ redis_log' = [op |-> "disconnect", pool_name |-> pool_name, raised |-> "",
                        value |-> 0]
       /\ UNCHANGED <<redisOthers, redis_pools, redis_clients, redis_created>>

\* faulty variant: only the pool is removed
redis_del_pool_only(pools, clients, pool_name) ==
    [pools |-> DictDrop(pools, {pool_name}), clients |-> clients]

\* del cls._pools[pool_name]; del cls._clients[pool_name]
redis_del(pools, clients, pool_name) ==
    [pools |-> DictDrop(pools, {pool_name}), clients |-> DictDrop(clients, {pool_name})]

\* RedisManager.disconnect, after the await: the entries are removed; KeyError
\* when another call removed them meanwhile
RedisDisconnectResume ==
    \E task \in Tasks :
       /\ redis_tasks[task].op = "disconnect"
       /\ LET pool_name == redis_tasks[task].pool_name
              removed == redis_del(redis_pools, redis_clients, pool_name)
          IN  /\ redis_pools' = removed.pools
              /\ redis_clients' = IF pool_name \in DOMAIN redis_pools
                                  THEN removed.clients ELSE redis_clients
              /\ redis_log' = [op |-> "disconnected", pool_name |-> pool_name,
                               raised |-> IF pool_name \in DOMAIN redis_pools
                                          THEN "" ELSE "KeyError",
                               value |-> 0]
       /\ redis_tasks' = [redis_tasks EXCEPT ![task] = NoTask]
       /\ UNCHANGED <<redisOthers, redis_created, redis_disconnected>>

\* RedisManager.clear, up to `await asyncio.gather(...)'
RedisClearAwait ==
    \E task \in Tasks :
       /\ redis_tasks[task] = NoTask
       /\ redis_tasks' = IF redis_clients # EmptyDict
                         THEN [redis_tasks EXCEPT ![task] = [op |-> "clear"]]
                         ELSE redis_tasks
       /\ redis_disconnected' = IF redis_clients # EmptyDict
                                THEN redis_disconnected \cup
                                        {redis_pools[pool_name] : pool_name \in DOMAIN redis_pools}
                                ELSE redis_disconnected
       /\ redis_log' = [op |-> "clear", pool_name |-> "", raised |-> "", value |-> 0]
       /\ UNCHANGED <<redisOthers, redis_pools, redis_clients, redis_created>>

\* RedisManager.clear, after the await: cls._pools.clear(); cls._clients.clear()
RedisClearResume ==
    \E task \in Tasks :
       /\ redis_tasks[task].op = "clear"
       /\ redis_pools' = EmptyDict
       /\ redis_clients' = EmptyDict
       /\ redis_log' = [op |-> "cleared", pool_name |-> "", raised |-> "", value |-> 0]
       /\ redis_tasks' = [redis_tasks EXCEPT ![task] = NoTask]
       /\ UNCHANGED <<redisOthers, redis_created, redis_disconnected>>

(***************************************************************************)
(* AsyncServer.on (src/websockets/server.py) and the dispatch of an        *)
(* incoming event to the registered handler.                               *)
(***************************************************************************)
WsEvents == {"test", "chat"}
Sids == {"sid1", "sid2"}

\* the annotation of the handler's second parameter: a Pydantic model or not
ModelClasses == {"User", "dict"}

\* what a client sends with an event: a mapping that validates against the
\* model, a mapping that does not, or something that is no mapping
Payloads == {"valid map", "invalid map", "list", "none"}

\* what the handler's body does once it is called
HandlerOutcomes == {"returns", "TypeError", "ValidationError"}

NoHandler == [call |-> "none", model_cls |-> "none"]
NoEmit == [event |-> "none", code |-> 0, to |-> "none"]

\* socketio's on(event, handler, namespace): with a handler it registers the
\* handler and returns None, without one it returns the registering decorator
\* AsyncServer.on: decorator(func) wraps func when its second parameter is a
\* Pydantic model and hands the result to `super().on(event, handler=handler)(...)'
WsOn ==
    \E event \in WsEvents, model_cls \in ModelClasses, form \in {"decorator", "handler"} :
       LET wrapped == IF model_cls = "User" THEN "wrapper" ELSE "func"
       IN  /\ ws_handlers' =
                 [ws_handlers EXCEPT ![event] =
                     [call |-> IF form = "handler" THEN "func" ELSE wrapped,
                      model_cls |-> model_cls]]
           /\ ws_log' = [op |-> "on", event |-> event, form |-> form,
                         raised |-> IF form = "handler" THEN "TypeError" ELSE ""]
           /\ UNCHANGED wsOthers

\* wrapper(sid, data): what the handler is called with and what is emitted
wrapper(sid, data, outcome) ==
    IF data \in {"list", "none"}
    THEN \* model_cls(**data) raises TypeError
         [called_with |-> "not called",
          emitted |-> [event |-> "error", code |-> 1003, to |-> sid]]
    ELSE IF data = "invalid map"
    THEN \* model_cls(**data) raises ValidationError
         [called_with |-> "not called",
          emitted |-> [event |-> "error", code |-> 1007, to |-> sid]]
    ELSE \* func(sid, parsed_data) runs inside the same try
         [called_with |-> "parsed",
          emitted |-> CASE outcome = "returns" -> NoEmit
                        [] outcome = "TypeError" -> [event |-> "error", code |-> 1003, to |-> sid]
                        [] outcome = "ValidationError" -> [event |-> "error", code |-> 1007, to |-> sid]]

\* an event arrives from a client and the registered handler is called
WsEvent ==
    \E event \in WsEvents, sid \in Sids, data \in Payloads, outcome \in HandlerOutcomes :
       /\ ws_handlers[event] # NoHandler
       /\ LET r == IF ws_handlers[event].call = "wrapper"
                   THEN wrapper(sid, data, outcome)
                   ELSE [called_with |-> "raw", emitted |-> NoEmit]
          IN  ws_log' = [op |-> "event", event |-> event, sid |-> sid, data |-> data,
                         called_with |-> r.called_with, emitted |-> r.emitted]
       /\ UNCHANGED <<wsOthers, ws_handlers>>

(***************************************************************************)
(* Exception handlers of the FastAPI application (src/main.py) and the     *)
(* exception classes of src/core/exceptions.py.                            *)
(***************************************************************************)
StatusCodes == {400, 404, 405}
Details == {"not found.", "Invalid username or password."}

\* keyword arguments a caller gives to an exception of core/exceptions.py
HttpKwargs ==
    {EmptyDict}
      \cup {[status_code |-> s] : s \in StatusCodes}
      \cup {[detail |-> d] : d \in Details}
      \cup {[status_code |-> s, detail |-> d] : s \in StatusCodes, d \in Details}

kwarg(kwargs, key, default) == IF key \in DOMAIN kwargs THEN kwargs[key] ELSE default

\* starlette's HTTPException(status_code, detail, headers)
HTTPException(cls, status_code, detail) ==
    [cls |-> cls, status_code |-> status_code, detail |-> detail]

BaseHTTPException(cls, kwargs) ==
    HTTPException(cls, kwarg(kwargs, "status_code", 500),
                  kwarg(kwargs, "detail", "http server error."))

PermissionDeniedException(kwargs) ==
    BaseHTTPException("PermissionDeniedException",
                      [status_code |-> kwarg(kwargs, "status_code", 403),
                       detail |-> kwarg(kwargs, "detail", "permission denied.")])

NotFoundException(kwargs) ==
    BaseHTTPException("NotFoundException",
                      [status_code |-> kwarg(kwargs, "status_code", 404),
                       detail |-> kwarg(kwargs, "detail", "not found.")])

\* type(exc).__mro__, as far as the handlers registered are concerned
mro(cls) ==
    CASE cls = "NotFoundException" ->
            <<"NotFoundException", "BaseHTTPException", "HTTPException", "Exception">>
      [] cls = "PermissionDeniedException" ->
            <<"PermissionDeniedException", "BaseHTTPException", "HTTPException", "Exception">>
      [] cls = "BaseHTTPException" -> <<"BaseHTTPException", "HTTPException", "Exception">>
      [] cls = "HTTPException" -> <<"HTTPException", "Exception">>
      [] cls = "RequestValidationError" ->
            <<"RequestValidationError", "ValidationException", "Exception">>
      [] OTHER -> <<cls, "Exception">>

\* the parts of a request a validation error is located in, as FastAPI reports
\* them in `loc': a parameter of the query or the path, a field of the body,
\* or the body as a whole when it is required and missing
Locs == {<<"query", "name">>, <<"query", "id">>, <<"path", "user_id">>, <<"body">>}
Msgs == {"Field required", "Input should be a valid UUID"}

lower(msg) ==
    CASE msg = "Field required" -> "field required"
      [] msg = "Input should be a valid UUID" -> "input should be a valid uuid"

MaxErrors == 2

ErrorLists ==
    UNION {[1 .. n -> [loc : Locs, msg : Msgs]] : n \in 1 .. MaxErrors}

JSONResponse(status_code, code, message, data) ==
    [raised |-> "", status_code |-> status_code,
     content |-> [code |-> code, message |-> message, data |-> data]]

\* handle_server_errors: ServerErrorResponse(data=str(exc))
handle_server_errors(exc) ==
    JSONResponse(500, 500, "Internal Server Error.", exc.cls)

\* handle_request_validation_errors: item['loc'][1] of every item, then
\* ValidationErrorResponse(data=details)
handle_request_validation_errors(exc) ==
    IF \E i \in DOMAIN exc.errors : Len(exc.errors[i].loc) < 2
    THEN [raised |-> "IndexError"]
    ELSE JSONResponse(422, 422, "Validation error.",
                      [i \in DOMAIN exc.errors |->
                          <<exc.errors[i].loc[2], lower(exc.errors[i].msg)>>])

\* handle_http_exception: Response(code=exc.status_code, message=str(exc.detail))
handle_http_exception(exc) ==
    JSONResponse(exc.status_code, exc.status_code, exc.detail, NoneValue)

\* app.exception_handler(...): the handlers of the exception middleware; the
\* one registered for Exception is the handler of the server-error middleware
exception_handlers == {"HTTPException", "RequestValidationError"}

\* the first class of the exception's __mro__ that has a handler, "" if none
lookup_exception_handler(exc) ==
    LET classes == mro(exc.cls)
        found == {i \in DOMAIN classes : classes[i] \in exception_handlers}
    IN  IF found = {} THEN ""
        ELSE classes[CHOOSE i \in found : \A j \in found : i <= j]

\* the response a client gets when handling its request raises `exc': the
\* exception middleware calls the handler found, and whatever it cannot
\* handle, or what a handler raises itself, reaches the server-error middleware
respond(exc) ==
    LET handler == lookup_exception_handler(exc)
        response == CASE handler = "HTTPException" -> handle_http_exception(exc)
                      [] handler = "RequestValidationError" ->
                            handle_request_validation_errors(exc)
                      [] OTHER -> [raised |-> exc.cls]
    IN  IF response.raised = "" THEN response
        ELSE handle_server_errors([cls |-> response.raised])

\* what handling a request can raise
HttpExceptions ==
    {HTTPException("HTTPException", s, d) : s \in StatusCodes, d \in Details}
      \cup {BaseHTTPException("BaseHTTPException", kwargs) : kwargs \in HttpKwargs}
      \cup {PermissionDeniedException(kwargs) : kwargs \in HttpKwargs}
      \cup {NotFoundException(kwargs) : kwargs \in HttpKwargs}

ValidationErrors == {[cls |-> "RequestValidationError", errors |-> e] : e \in ErrorLists}

OtherExceptions ==
    {[cls |-> c] : c \in {"ValueError", "TypeError", "RuntimeError", "KeyError"}}

NoRequest == [exc |-> [cls |-> "none"]]

\* a request whose handling raises: the response the handlers make of it
HandleRequest ==
    \E exc \in HttpExceptions \cup ValidationErrors \cup OtherExceptions :
       /\ http_log' = [exc |-> exc, response |-> respond(exc)]
       /\ UNCHANGED httpOthers
(***************************************************************************)
(* get_paginate of both CRUD classes, query by query: the records are read *)
(* by one statement, the total by a second one (get_count), and each is    *)
(* awaited.  PostgreSQL runs the session's transaction READ COMMITTED and  *)
(* MongoDB runs the two operations outside any transaction: a statement    *)
(* sees what other sessions have committed before it.                      *)
(***************************************************************************)
MaxOtherWrites == 2

NoPaginate == [op |-> "none"]

\* the first query has returned; get_count has not run yet
Paginating == paginate_call # NoPaginate /\ NoQueryYet

\* BaseSQLModelCRUD.get_paginate up to `result.all() or []'
SqlPaginateSelect ==
    /\ engine = "sql"
    /\ paginate_call = NoPaginate
    /\ NoQueryYet
    /\ \E filter \in Filters, page \in Pages, size \in Sizes, order_by \in OrderBys :
          \E response \in sql_get_paginate(sql_session, filter, page, size, order_by) :
             paginate_call' = [op |-> "get_paginate", filter |-> filter, page |-> page,
                               size |-> size, order_by |-> order_by,
                               records |-> response.records, others |-> 0]
    /\ UNCHANGED <<paginateOthers, crudVars>>

\* BaseSQLModelCRUD.get_paginate from `await self.get_count(...)' to its return
SqlPaginateCount ==
    /\ Paginating
    /\ LET call == paginate_call
       IN  SqlStep(SqlResult(sql_session, sql_committed,
                       Return(PaginatedResponse(call.records,
                                                get_count(sql_session, call.filter),
                                                call.page, call.size))),
                   [op |-> "get_paginate", filter |-> call.filter, page |-> call.page,
                    size |-> call.size, order_by |-> call.order_by])

\* BaseBeanieCRUD.get_paginate up to `await statement.to_list()'
BeaniePaginateFind ==
    /\ engine = "beanie"
    /\ paginate_call = NoPaginate
    /\ NoQueryYet
    /\ \E filter \in Filters, page \in Pages, size \in Sizes, order_by \in OrderBys :
          \E response \in beanie_get_paginate(collection, filter, page, size, order_by) :
             paginate_call' = [op |-> "get_paginate", filter |-> filter, page |-> page,
                               size |-> size, order_by |-> order_by,
                               records |-> response.records, others |-> 0]
    /\ UNCHANGED <<paginateOthers, crudVars>>

\* BaseBeanieCRUD.get_paginate from `await self.get_count(...)' to its return
BeaniePaginateCount ==
    /\ Paginating
    /\ LET call == paginate_call
       IN  BeanieStep(BeanieResult(collection,
                          Return(PaginatedResponse(call.records,
                                                   get_count(collection, call.filter),
                                                   call.page, call.size))),
                      [op |-> "get_paginate", filter |-> call.filter, page |-> call.page,
                       size |-> call.size, order_by |-> call.order_by])

\* the table or collection as every session reads it
stored_records == IF engine = "sql" THEN sql_committed ELSE collection

\* another session has written: the records are `records' for everybody
other_session_wrote(records) ==
    /\ Paginating
    /\ paginate_call.others < MaxOtherWrites
    /\ paginate_call' = [paginate_call EXCEPT !.others = @ + 1]
    /\ sql_committed' = (IF engine = "sql" THEN records ELSE sql_committed)
    /\ sql_session' = sql_committed'
    /\ collection' = (IF engine = "beanie" THEN records ELSE collection)
    /\ UNCHANGED <<paginateOthers, engine, auto_commit, clock, crud_log>>

\* another session (request) creates a record and commits
OtherSessionCreate ==
    \E i \in FreshIds(DOMAIN stored_records), name \in Names, desc_test \in {"", "d"} :
       /\ engine = "sql" => ~name_taken(stored_records, i, name)
       /\ other_session_wrote(DictPut(stored_records, i, Row(name, desc_test, 0)))

\* another session (request) deletes a record and commits
OtherSessionDelete ==
    \E i \in DOMAIN stored_records :
       other_session_wrote(DictDrop(stored_records, {i}))
\* the subsystem a specification does not exercise stays as constructed
IdleSched ==
    /\ periodic_task = [i \in RowIds |-> NoRow]
    /\ schedule_rows = [t \in TaskTypes |-> {}]
    /\ default_entries = FALSE
    /\ refresh_interval = 1
    /\ store = EmptyDict
    /\ last_updated = 0
    /\ now = 0
    /\ tick_log = NoTick

IdleCrud ==
    /\ engine = "sql"
    /\ auto_commit = TRUE
    /\ sql_session = EmptyDict
    /\ sql_committed = EmptyDict
    /\ collection = EmptyDict
    /\ clock = 0
    /\ crud_log = NoCall

IdleSequence ==
    /\ counter = <<>>
    /\ sequence_pc = [c \in Callers |-> "idle"]
    /\ sequence_returned = <<>>

IdleAuth ==
    /\ role_table = [code \in RoleCodes |-> {}]
    /\ permission_cache = EmptyDict
    /\ auth_log = NoAuthCall

IdleRedis ==
    /\ redis_pools = EmptyDict
    /\ redis_clients = EmptyDict
    /\ redis_created = 0
    /\ redis_tasks = [task \in Tasks |-> NoTask]
    /\ redis_log = [op |-> "none", pool_name |-> "", raised |-> "", value |-> 0]
    /\ redis_disconnected = {}

IdleWs ==
    /\ ws_handlers = [event \in WsEvents |-> NoHandler]
    /\ ws_log = [op |-> "none"]

IdleHttp ==
    http_log = NoRequest

IdlePaginate ==
    paginate_call = NoPaginate

IdleAux ==
    /\ IdleSequence
    /\ IdleAuth
    /\ IdleRedis
    /\ IdleWs
    /\ IdleHttp
    /\ IdlePaginate

(***************************************************************************)
(* DatabaseScheduler.__init__: the parent constructor runs setup_schedule  *)
(* unless lazy, then refresh_interval and last_updated are set.            *)
(***************************************************************************)
RefreshIntervals == {1, 2}

InitSched ==
    /\ periodic_task \in
          {[i \in RowIds |-> NoRow],
           [i \in RowIds |-> IF i = 1 THEN PeriodicTask("db_task", TRUE, 1, "interval", 1)
                             ELSE NoRow]}
    /\ schedule_rows \in {[t \in TaskTypes |-> {}],
                          [t \in TaskTypes |-> IF t = "interval" THEN {1} ELSE {}]}
    /\ default_entries \in BOOLEAN
    /\ refresh_interval \in RefreshIntervals
    /\ now = 0
    /\ last_updated = 0
    /\ \E lazy \in BOOLEAN, tasks \in Orderings(EnabledRows) :
          store = IF lazy THEN EmptyDict ELSE setup_schedule(EmptyDict, tasks)
    /\ tick_log = NoTick
    /\ IdleCrud
    /\ IdleAux

NextSched ==
    \/ tick
    \/ sync
    \/ TimePasses
    \/ InsertPeriodicTask
    \/ SetEnabled
    \/ DeletePeriodicTask
    \/ InsertSchedule
    \/ DeleteSchedule


(***************************************************************************)
(* The CRUD layer after construction: an empty or a seeded table (or       *)
(* collection), no call made yet.                                          *)
(***************************************************************************)
SeedStores ==
    {EmptyDict, [i \in {1} |-> Row("a", "", 0)]}

InitCrud ==
    /\ engine \in {"sql", "beanie"}
    /\ auto_commit \in (IF engine = "sql" THEN BOOLEAN ELSE {TRUE})
    /\ \E seed \in SeedStores :
          /\ sql_committed = (IF engine = "sql" THEN seed ELSE EmptyDict)
          /\ sql_session = sql_committed
          /\ collection = (IF engine = "beanie" THEN seed ELSE EmptyDict)
    /\ clock = 0
    /\ crud_log = NoCall
    /\ IdleSched
    /\ IdleAux

NextCrud ==
    \/ SqlGet
    \/ SqlCreate
    \/ SqlUpdate
    \/ SqlDelete
    \/ SqlDeleteAll
    \/ CallerCommit
    \/ EndSession
    \/ BeanieGet
    \/ BeanieCreate
    \/ BeanieUpdate
    \/ BeanieDelete
    \/ BeanieDeleteAll
    \/ ClockTick

\* the tables (collections) a query can meet: any records under the ids
QueryRows == {Row(name, desc_test, 0) : name \in Names, desc_test \in {"", "d"}}

QueryStores == UNION {[S -> QueryRows] : S \in SUBSET Ids}

InitQuery ==
    /\ engine \in {"sql", "beanie"}
    /\ auto_commit = TRUE
    /\ \E stored \in QueryStores :
          /\ engine = "sql" => \A i \in DOMAIN stored : ~name_taken(stored, i, stored[i].name)
          /\ sql_committed = (IF engine = "sql" THEN stored ELSE EmptyDict)
          /\ sql_session = sql_committed
          /\ collection = (IF engine = "beanie" THEN stored ELSE EmptyDict)
    /\ clock = 0
    /\ crud_log = NoCall
    /\ IdleSched
    /\ IdleAux

NextQuery ==
    \/ SqlGetPaginate
    \/ BeanieGetPaginate
    \/ SqlGetByIds

\* BaseBeanieCRUD alone, with every call it has
InitBeanie ==
    /\ engine = "beanie"
    /\ auto_commit = TRUE
    /\ sql_session = EmptyDict
    /\ sql_committed = EmptyDict
    /\ collection \in SeedStores
    /\ clock = 0
    /\ crud_log = NoCall
    /\ IdleSched
    /\ IdleAux

NextBeanie ==
    \/ BeanieGet
    \/ BeanieGetByIds
    \/ BeanieCreate
    \/ BeanieCreateAll
    \/ BeanieUpdate
    \/ BeanieUpdateById
    \/ BeanieUpdateAll
    \/ BeanieDelete
    \/ BeanieDeleteAll
    \/ ClockTick

\* BaseSQLModelCRUD alone, with every call that writes, within one instant of
\* the clock
InitSql ==
    /\ engine = "sql"
    /\ auto_commit \in BOOLEAN
    /\ sql_committed \in SeedStores
    /\ sql_session = sql_committed
    /\ collection = EmptyDict
    /\ clock = 0
    /\ crud_log = NoCall
    /\ IdleSched
    /\ IdleAux

NextSql ==
    \/ SqlCreate
    \/ SqlCreateAll
    \/ SqlUpdate
    \/ SqlUpdateById
    \/ SqlUpdateAll
    \/ SqlDelete
    \/ SqlDeleteAll
    \/ CallerCommit
    \/ EndSession

vars == <<schedVars, crudVars, auxVars>>

SpecSched == InitSched /\ [][NextSched]_vars

SpecCrud == InitCrud /\ [][NextCrud]_vars

SpecQuery == InitQuery /\ [][NextQuery]_vars

SpecBeanie == InitBeanie /\ [][NextBeanie]_vars

SpecSql == InitSql /\ [][NextSql]_vars

\* callers of get_next_sequence for one key, from an empty counter collection
InitSequence ==
    /\ IdleSequence
    /\ IdleSched
    /\ IdleCrud
    /\ IdleAuth
    /\ IdleRedis
    /\ IdleWs
    /\ IdleHttp
    /\ IdlePaginate

NextSequence ==
    \/ \E c \in Callers : SequenceUpdate(c)
    \/ \E c \in Callers : SequenceMiss(c)
    \/ \E c \in Callers : SequenceUpsert(c)

SpecSequence == InitSequence /\ [][NextSequence]_vars

\* the authentication layer: no role has a permission yet, nothing is cached
InitAuth ==
    /\ IdleAuth
    /\ IdleSched
    /\ IdleCrud
    /\ IdleSequence
    /\ IdleRedis
    /\ IdleWs
    /\ IdleHttp
    /\ IdlePaginate

NextAuth ==
    \/ VerifyUserPermission
    \/ RoleUpdate
    \/ UserLogin
    \/ ParseJwtUser

SpecAuth == InitAuth /\ [][NextAuth]_vars

\* RedisManager as the class is defined: no pool, no client
InitRedis ==
    /\ IdleRedis
    /\ IdleSched
    /\ IdleCrud
    /\ IdleSequence
    /\ IdleAuth
    /\ IdleWs
    /\ IdleHttp
    /\ IdlePaginate

NextRedis ==
    \/ RedisConnect
    \/ RedisClient
    \/ RedisDisconnectAwait
    \/ RedisDisconnectResume
    \/ RedisClearAwait
    \/ RedisClearResume

SpecRedis == InitRedis /\ [][NextRedis]_vars

\* the AsyncServer after construction: no handler registered
InitWs ==
    /\ IdleWs
    /\ IdleSched
    /\ IdleCrud
    /\ IdleSequence
    /\ IdleAuth
    /\ IdleRedis
    /\ IdleHttp
    /\ IdlePaginate

NextWs ==
    \/ WsOn
    \/ WsEvent

SpecWs == InitWs /\ [][NextWs]_vars


\* the application after start-up: no request handled yet
InitHttp ==
    /\ IdleHttp
    /\ IdlePaginate
    /\ IdleSched
    /\ IdleCrud
    /\ IdleSequence
    /\ IdleAuth
    /\ IdleRedis
    /\ IdleWs

NextHttp ==
    \/ HandleRequest

SpecHttp == InitHttp /\ [][NextHttp]_vars

\* get_paginate of either CRUD class while other sessions write: the tables
\* (collections) a query can meet, one call per behaviour
NextPaginate ==
    \/ SqlPaginateSelect
    \/ SqlPaginateCount
    \/ BeaniePaginateFind
    \/ BeaniePaginateCount
    \/ OtherSessionCreate
    \/ OtherSessionDelete

SpecPaginate == InitQuery /\ [][NextPaginate]_vars
(***************************************************************************)
(* Claims about the scheduler (checked under SpecSched).  tick_log is the  *)
(* record of the latest tick() while the database and the clock are still  *)
(* as that call saw them.                                                  *)
(***************************************************************************)
Reloaded == tick_log.op = "tick" /\ tick_log.reloaded

\* enabled rows whose schedule row exists in the table of their task_type
ScheduledRows == {i \in EnabledRows : schedule_info(periodic_task[i])}

RowEntry(i) ==
    ScheduleEntry(periodic_task[i].task,
        [kind |-> periodic_task[i].task_type, value |-> periodic_task[i].schedule_id])

\* C1 as stated: the schedule built by _database_schedule has exactly the names
\* of the enabled database tasks and of the configured beat_schedule entries.
C1_AsStated ==
    Reloaded =>
        DOMAIN tick_log.built =
            {periodic_task[i].name : i \in EnabledRows} \cup DOMAIN beat_schedule

\* C1 (amended): the schedule built by _database_schedule is the union, keyed by
\* task name, of the enabled database tasks whose schedule row exists and the
\* configured beat_schedule; a name present in both keeps the configured entry,
\* and every other name carries the entry of an enabled row of that name.
C1_DatabaseScheduleIsUnion ==
    Reloaded =>
        LET built == tick_log.built
        IN  /\ DOMAIN built =
                  {periodic_task[i].name : i \in ScheduledRows} \cup DOMAIN beat_schedule
            /\ \A n \in DOMAIN beat_schedule :
                  built[n] = ScheduleEntry(beat_schedule[n].task, beat_schedule[n].schedule)
            /\ \A n \in DOMAIN built \ DOMAIN beat_schedule :
                  \E i \in ScheduledRows :
                      periodic_task[i].name = n /\ built[n] = RowEntry(i)

\* C1 witness: a reload that saw an enabled, scheduled row under a configured
\* name and another one under a name of its own.
C1_Witness ==
    /\ Reloaded
    /\ \E i, j \in ScheduledRows :
          /\ periodic_task[i].name \in DOMAIN beat_schedule
          /\ periodic_task[j].name \notin DOMAIN beat_schedule
          /\ RowEntry(i) # tick_log.built[periodic_task[i].name]

\* C2: after a refresh performed by tick, the in-memory schedule has an entry
\* for every enabled database task whose schedule row exists and for every
\* configured entry, and no other entry but Celery's default one: the names
\* of tasks disabled, deleted or left without schedule row are gone.
C2_RefreshReconciles ==
    Reloaded =>
        LET wanted == {periodic_task[i].name : i \in ScheduledRows} \cup DOMAIN beat_schedule
        IN  /\ wanted \subseteq DOMAIN store
            /\ DOMAIN store \subseteq wanted \cup {BackendCleanup}
            /\ \A n \in DOMAIN tick_log.before \ (wanted \cup {BackendCleanup}) :
                  n \notin DOMAIN store

\* C2 witness: a refresh that removed an entry the schedule held before it,
\* while a database entry and a configured entry are in the schedule.
C2_Witness ==
    /\ Reloaded
    /\ \E n \in DOMAIN tick_log.before : n \notin DOMAIN store
    /\ DOMAIN beat_schedule \subseteq DOMAIN store

\* C2 witness of the other direction is part of C1_Witness; this one is the
\* refresh that adds the entry of a row enabled since the previous refresh.
C2_WitnessAdded ==
    /\ Reloaded
    /\ \E i \in ScheduledRows : periodic_task[i].name \notin DOMAIN tick_log.before

C3_WitnessReload ==
    /\ Reloaded
    /\ tick_log.updated_before < last_updated

(***************************************************************************)
(* Claims about the CRUD calls.                                            *)
(***************************************************************************)
\* the records a call of the CRUD in use reads and writes
View == IF engine = "sql" THEN sql_session ELSE collection

\* the record carries the given field values
Carries(record, data) == \A f \in DOMAIN data : record[f] = data[f]

\* C5: get(id) for an id that is not stored returns None when nullable is
\* True and raises NotFoundException when nullable is False; for a stored id
\* it returns that record; in every case the store (the session's rows, the
\* committed rows, the collection) is left unchanged.  Both CRUD classes.
C5_GetContract ==
    [][\A _id \in Ids, nullable \in BOOLEAN :
          crud_log'.call = [op |-> "get", id |-> _id, nullable |-> nullable]
          => /\ crud_log'.out =
                   (IF _id \in DOMAIN View
                    THEN Return(Instance(_id, View[_id]))
                    ELSE IF nullable THEN Return(NoneValue)
                                     ELSE Raise("NotFoundException"))
             /\ UNCHANGED <<sql_session, sql_committed, collection>>]_vars

\* a get with nullable=False has raised NotFoundException for an id that is not stored
C5_Witness ==
    /\ crud_log.call.op = "get"
    /\ ~crud_log.call.nullable
    /\ crud_log.call.id \notin DOMAIN View
    /\ crud_log.out = Raise("NotFoundException")
    /\ View # EmptyDict

\* a get has returned the stored record
C5_WitnessStored ==
    /\ crud_log.call.op = "get"
    /\ crud_log.call.id \in DOMAIN View
    /\ crud_log.out = Return(Instance(crud_log.call.id, View[crud_log.call.id]))

\* C6: after create(x) succeeds, get with the returned record's id returns a
\* record carrying the field values of x, and get_count is one greater than
\* before the call, whether x is a dict, a create schema or a model instance.
C6_CreateThenGet ==
    [][(crud_log'.call.op = "create" /\ crud_log'.out.raised = "")
       => LET x == crud_log'.call.create_in
              _id == crud_log'.out.value.id
              got == IF engine = "sql" THEN sql_get(sql_session', _id, TRUE)
                                       ELSE beanie_get(collection', _id, TRUE)
          IN  /\ got.raised = ""
              /\ ~got.value.none
              /\ got.value.id = _id
              /\ Carries(got.value, x.data)
              /\ get_count(View', "none") = get_count(View, "none") + 1]_vars

\* a create from a schema has succeeded where records were stored before
C6_Witness ==
    /\ crud_log.call.op = "create"
    /\ crud_log.call.create_in.kind = "schema"
    /\ crud_log.out.raised = ""
    /\ crud_log.out.value.id \in DOMAIN View
    /\ get_count(View, "none") = 2

C6_WitnessDict ==
    /\ crud_log.call.op = "create"
    /\ crud_log.call.create_in.kind = "dict"
    /\ crud_log.out.raised = ""

C6_WitnessModel ==
    /\ crud_log.call.op = "create"
    /\ crud_log.call.create_in.kind = "model"
    /\ crud_log.out.raised = ""

\* C7, as stated: update(current, update_in) sets exactly the fields present
\* in update_in to the given values and persists them; the id and every field
\* absent from update_in keep their values, except update_time, which is
\* refreshed.  Both CRUD classes, update_in a dict, a schema or a model.
C7_UpdateAsStated ==
    [][\A _id \in Ids :
          (crud_log'.call.op = "update" /\ crud_log'.call.id = _id)
          => LET data == crud_log'.call.update_in.data
             IN  /\ crud_log'.out.raised = ""
                 /\ DOMAIN View' = DOMAIN View
                 /\ \A f \in DataFields :
                       View'[_id][f] = IF f \in DOMAIN data THEN data[f] ELSE View[_id][f]
                 /\ View'[_id].update_time = clock
                 /\ \A other \in DOMAIN View \ {_id} : View'[other] = View[other]
                 /\ crud_log'.out.value = Instance(_id, View'[_id])]_vars

\* C7, what the code does for a dict (and a schema or a model in
\* BaseBeanieCRUD) unless a unique column rejects the values: the fields are
\* set as stated; update_time is refreshed by BaseBeanieCRUD always, by
\* BaseSQLModelCRUD when a column changed.
C7_UpdateOfDict ==
    [][\A _id \in Ids :
          (/\ crud_log'.call.op = "update"
           /\ crud_log'.call.id = _id
           /\ (engine = "sql" => crud_log'.call.update_in.kind = "dict")
           /\ crud_log'.out.raised # "ExistsException")
          => LET data == crud_log'.call.update_in.data
                 changed == \E f \in DOMAIN data : data[f] # View[_id][f]
             IN  /\ crud_log'.out.raised = ""
                 /\ DOMAIN View' = DOMAIN View
                 /\ \A f \in DataFields :
                       View'[_id][f] = IF f \in DOMAIN data THEN data[f] ELSE View[_id][f]
                 /\ View'[_id].update_time =
                       (IF engine = "beanie" \/ changed THEN clock ELSE View[_id].update_time)
                 /\ \A other \in DOMAIN View \ {_id} : View'[other] = View[other]
                 /\ crud_log'.out.value = Instance(_id, View'[_id])]_vars

\* BaseSQLModelCRUD.update with an update schema has raised TypeError
C7_WitnessTypeError ==
    /\ engine = "sql"
    /\ crud_log.call.op = "update"
    /\ crud_log.call.update_in.kind = "schema"
    /\ crud_log.out = Raise("TypeError")

\* C8, as stated, for the step that follows a delete: after delete(id) has
\* returned the record, the id stays absent (get(id, nullable=False) raises
\* NotFoundException) unless the step is a create.
C8_DeleteAsStated ==
    [][(/\ crud_log.call.op = "delete"
        /\ crud_log.out.raised = ""
        /\ crud_log'.call.op # "create")
       => (IF engine = "sql" THEN sql_get(sql_session', crud_log.call.id, FALSE)
                             ELSE beanie_get(collection', crud_log.call.id, FALSE))
          = Raise("NotFoundException")]_vars

\* C8, amended: delete(id) of a stored record returns that record and removes
\* it from what the CRUD sees; delete of an id that is not stored raises
\* NotFoundException and removes nothing; once the removal is committed (by
\* the call's or the CRUD's auto_commit, by the caller's commit, always in
\* BaseBeanieCRUD) the id stays absent until a create stores it again.
C8_DeleteCommitted ==
    [][/\ \A _id \in Ids :
            crud_log'.call = [op |-> "delete", id |-> _id]
            => IF _id \in DOMAIN View
               THEN /\ crud_log'.out = Return(Instance(_id, View[_id]))
                    /\ DOMAIN View' = DOMAIN View \ {_id}
                    /\ \A other \in DOMAIN View' : View'[other] = View[other]
                    /\ \A ac \in BOOLEAN :
                          (SqlDeleteCall(_id, ac) /\ (ac \/ auto_commit))
                          => _id \notin DOMAIN sql_committed'
               ELSE /\ crud_log'.out = Raise("NotFoundException")
                    /\ UNCHANGED <<sql_session, sql_committed, collection>>
       /\ \A _id \in Ids :
            (/\ _id \notin DOMAIN sql_session \cup DOMAIN sql_committed \cup DOMAIN collection
             /\ _id \in DOMAIN sql_session' \cup DOMAIN sql_committed' \cup DOMAIN collection')
            => crud_log'.call.op = "create"]_vars

\* a delete has returned the record, its removal is committed, and another
\* record is still stored
C8_Witness ==
    /\ crud_log.call.op = "delete"
    /\ crud_log.out.raised = ""
    /\ crud_log.call.id \notin DOMAIN sql_session \cup DOMAIN sql_committed \cup DOMAIN collection
    /\ View # EmptyDict

\* C9: delete_all(ids) removes every stored record whose id is in ids and no
\* other record; ids that match no stored record are ignored without error.
\* (ids of BaseBeanieCRUD: a non-empty list of ids.)
C9_DeleteAllContract ==
    [][\A ids \in IdLists(Ids) :
          (/\ crud_log'.call = [op |-> "delete_all", ids |-> ids]
           /\ (engine = "beanie" => ids # <<>>))
          => /\ crud_log'.out = Return(NoneValue)
             /\ DOMAIN View' = DOMAIN View \ Range(ids)
             /\ \A other \in DOMAIN View' : View'[other] = View[other]]_vars

\* a delete_all with ids has returned: no record of ids is stored, a record
\* outside ids still is
C9_Witness ==
    /\ crud_log.call.op = "delete_all"
    /\ crud_log.out = Return(NoneValue)
    /\ crud_log.call.ids # <<>>
    /\ DOMAIN View \cap Range(crud_log.call.ids) = {}
    /\ View # EmptyDict

\* C12: BaseSQLModelCRUD.create(x, validate=False) with x that is not an
\* instance of the model (a dict or a schema) raises TypeError and adds
\* nothing: the session's rows and the committed rows stay as they were
C12_CreateUnvalidatedTypeError ==
    [][(/\ crud_log'.call.op = "create"
        /\ engine = "sql"
        /\ ~crud_log'.call.validate
        /\ crud_log'.call.create_in.kind # "model")
       => /\ crud_log'.out = Raise("TypeError")
          /\ UNCHANGED <<sql_session, sql_committed>>]_vars

\* create(validate=False) has been called with a dict whose name no stored row
\* has, so that the row could have been added
C12_Witness ==
    /\ engine = "sql"
    /\ crud_log.call.op = "create"
    /\ ~crud_log.call.validate
    /\ crud_log.call.create_in.kind = "dict"
    /\ crud_log.out = Raise("TypeError")
    /\ ~name_taken(sql_session, NoneId, crud_log.call.create_in.data.name)
    /\ Cardinality(DOMAIN sql_session) < MaxIds

\* the step is a call of a write operation of BaseSQLModelCRUD (create,
\* create_all, update, update_by_id, update_all, delete) with auto_commit = ac
WriteCall(ac) ==
    LET call == crud_log'.call
    IN  \/ /\ call.op = "create"
           /\ \E fresh \in Ids \cup {NoneId} :
                 SqlCreateCall(call.create_in, call.validate, ac, fresh)
        \/ /\ call.op = "create_all"
           /\ \E fresh \in FreshForAll(call.creates_in, DOMAIN sql_session \cup DOMAIN sql_committed) :
                 SqlCreateAllCall(call.creates_in, ac, fresh)
        \/ /\ call.op = "update"
           /\ SqlUpdateCall(call.id, call.update_in, ac)
        \/ /\ call.op = "update_by_id"
           /\ SqlUpdateByIdCall(call.id, call.update_in, ac)
        \/ /\ call.op = "update_all"
           /\ SqlUpdateAllCall(call.updates_in, ac)
        \/ /\ call.op = "delete"
           /\ SqlDeleteCall(call.id, ac)

\* C14 as stated: a write operation called with auto_commit=False does not
\* commit, the committed rows are those before the call
C14_AsStated ==
    [][WriteCall(FALSE) => UNCHANGED sql_committed]_vars

\* C14, amended: a write operation that returns commits the session's rows when
\* the call's auto_commit or the CRUD's auto_commit is True; when both are
\* False, and when the call raises, the committed rows are those before the call
C14_CommitRule ==
    [][\A ac \in BOOLEAN :
          WriteCall(ac)
          => sql_committed' = (IF crud_log'.out.raised = "" /\ (ac \/ auto_commit)
                               THEN sql_session' ELSE sql_committed)]_vars

\* on a CRUD built with auto_commit=False a write operation has returned and
\* its change is in the session only
C14_Witness ==
    /\ engine = "sql"
    /\ ~auto_commit
    /\ crud_log.call.op \in {"create", "create_all", "update", "update_by_id", "update_all", "delete"}
    /\ crud_log.out.raised = ""
    /\ sql_committed # sql_session

\* on a CRUD built with the default auto_commit=True, update_all has returned
\* and the committed rows have the name it set
C14_WitnessCommitted ==
    /\ engine = "sql"
    /\ auto_commit
    /\ crud_log.call.op = "update_all"
    /\ crud_log.out.raised = ""
    /\ 1 \in DOMAIN sql_committed
    /\ sql_committed[1].name = "b"
    /\ sql_committed = sql_session

(***************************************************************************)
(* Claims about the queries.                                               *)
(***************************************************************************)
\* the response is the page of one of the sequences the database can return
\* for the filters and order_by: its elements at the (0-based) positions
\* (page-1)*size .. page*size-1, with the count of all matching records
PageOf(response, filter, page, size, order_by) ==
    /\ response.total = Cardinality({i \in DOMAIN View : matches(filter, View[i])})
    /\ \E s \in result_orders(View, matching(View, filter), order_by) :
          LET sequence == Instances(View, s)
              positions == {p \in ((page - 1) * size)..(page * size - 1) : p < Len(sequence)}
          IN  /\ Len(response.records) = Cardinality(positions)
              /\ \A k \in 1..Len(response.records) :
                    response.records[k] = sequence[(page - 1) * size + k]

\* C4, as stated: get_paginate(filters, page, size, order_by) returns as
\* records the elements at positions (page-1)*size through page*size-1 of the
\* sequence of the matching records, sorted by order_by when given, and as
\* total the number of all matching records; a page past the end, or size 0,
\* gives empty records with total unchanged.  Both CRUD classes.
C4_PaginateAsStated ==
    crud_log.call.op = "get_paginate"
    => LET call == crud_log.call
           response == crud_log.out.value
       IN  /\ crud_log.out.raised = ""
           /\ PageOf(response, call.filter, call.page, call.size, call.order_by)
           /\ (call.size = 0 \/ (call.page - 1) * call.size >= response.total)
              => response.records = <<>>

\* C4, what the code does: the statement holds for BaseSQLModelCRUD, and for
\* BaseBeanieCRUD when size is not 0; BaseBeanieCRUD answers size 0 with all
\* matching records.
C4_PaginateOfCode ==
    crud_log.call.op = "get_paginate"
    => LET call == crud_log.call
           response == crud_log.out.value
       IN  IF engine = "beanie" /\ call.size = 0
           THEN /\ response.total = get_count(View, call.filter)
                /\ Len(response.records) = response.total
           ELSE /\ PageOf(response, call.filter, call.page, call.size, call.order_by)
                /\ (call.size = 0 \/ (call.page - 1) * call.size >= response.total)
                   => response.records = <<>>

\* BaseBeanieCRUD.get_paginate with size 0 has returned records
C4_WitnessSizeZero ==
    /\ engine = "beanie"
    /\ crud_log.call.op = "get_paginate"
    /\ crud_log.call.size = 0
    /\ crud_log.out.value.records # <<>>

\* C10: BaseSQLModelCRUD.get_by_ids(ids) returns exactly the stored records
\* whose id is in ids, each once; ids that match nothing are ignored, and an
\* empty ids list gives an empty list rather than an error.
C10_GetByIdsContract ==
    crud_log.call.op = "get_by_ids"
    => LET ids == crud_log.call.ids
           response == crud_log.out.value
           stored == {Instance(i, sql_session[i]) : i \in DOMAIN sql_session \cap Range(ids)}
       IN  /\ crud_log.out.raised = ""
           /\ Range(response) = stored
           /\ Len(response) = Cardinality(stored)
           /\ ids = <<>> => response = <<>>

\* get_by_ids with a stored id and an id that is not stored has returned one record
C10_Witness ==
    /\ crud_log.call.op = "get_by_ids"
    /\ Len(crud_log.call.ids) = 2
    /\ crud_log.call.ids[1] \in DOMAIN sql_session
    /\ crud_log.call.ids[2] \notin DOMAIN sql_session
    /\ Len(crud_log.out.value) = 1

\* get_by_ids with an id given twice has returned its record once
C10_WitnessRepeated ==
    /\ crud_log.call.op = "get_by_ids"
    /\ Len(crud_log.call.ids) = 2
    /\ crud_log.call.ids[1] = crud_log.call.ids[2]
    /\ Len(crud_log.out.value) = 1

\* get_by_ids with an empty ids list has returned an empty list
C10_WitnessEmpty ==
    /\ crud_log.call.op = "get_by_ids"
    /\ crud_log.call.ids = <<>>
    /\ crud_log.out = Return(<<>>)
    /\ sql_session # EmptyDict

(***************************************************************************)
(* Claims on BaseBeanieCRUD                                                *)
(***************************************************************************)
\* the calls of BaseBeanieCRUD with an empty argument: get, update_by_id and
\* delete with the id None; get_by_ids, create_all, update_all and delete_all
\* with an empty list
EmptyArgument(call) ==
    \/ call.op \in {"get", "update_by_id", "delete"} /\ call.id = NoneId
    \/ call.op \in {"get_by_ids", "delete_all"} /\ call.ids = <<>>
    \/ call.op = "create_all" /\ call.creates_in = <<>>
    \/ call.op = "update_all" /\ call.updates_in = <<>>

\* C11: a call of BaseBeanieCRUD with an empty argument (get, update_by_id,
\* delete with the id None; get_by_ids, create_all, update_all, delete_all
\* with an empty list) raises InvalidParameterError and leaves the collection
\* as it was
C11_EmptyArgumentRefused ==
    [][EmptyArgument(crud_log'.call)
       => /\ crud_log'.out = Raise("InvalidParameterError")
          /\ UNCHANGED collection]_vars

\* an empty batch has been given to create_all on a collection with documents
C11_Witness ==
    /\ crud_log.call.op = "create_all"
    /\ crud_log.call.creates_in = <<>>
    /\ crud_log.out = Raise("InvalidParameterError")
    /\ collection # EmptyDict

\* update_by_id has been called with the id None
C11_WitnessUpdateById ==
    /\ crud_log.call.op = "update_by_id"
    /\ crud_log.call.id = NoneId
    /\ crud_log.out = Raise("InvalidParameterError")

\* the items of the batch that give field f for the document d
Giving(updates_in, d, f) ==
    {k \in 1..Len(updates_in) : pop_id(updates_in[k]) = d /\ f \in DOMAIN updates_in[k].data}

\* the value of field f of document d after the batch: that of the last item
\* giving it, the value before the batch when no item gives it
ValueAfter(updates_in, d, f) ==
    LET giving == Giving(updates_in, d, f)
    IN  IF giving = {}
        THEN collection[d][f]
        ELSE updates_in[CHOOSE k \in giving : \A j \in giving : j <= k].data[f]

\* C13: BaseBeanieCRUD.update_all of a batch sets, for each item, the given
\* fields on the document whose id is the item's "id" or "_id"; a batch with an
\* item without id raises ValueError and no document is modified
C13_UpdateAllContract ==
    [][\A updates_in \in Batches(UpdateItems) \ {<<>>} :
          crud_log'.call = [op |-> "update_all", updates_in |-> updates_in]
          => IF \E k \in 1..Len(updates_in) : updates_in[k].key = "none"
             THEN /\ crud_log'.out = Raise("ValueError")
                  /\ UNCHANGED collection
             ELSE /\ crud_log'.out = Return(NoneValue)
                  /\ DOMAIN collection' = DOMAIN collection
                  /\ \A d \in DOMAIN collection, f \in DataFields :
                        collection'[d][f] = ValueAfter(updates_in, d, f)]_vars

\* update_all has raised ValueError for a batch whose first item names a stored
\* document and gives a name the document does not have, and whose second item
\* has no id
C13_Witness ==
    /\ crud_log.call.op = "update_all"
    /\ crud_log.out = Raise("ValueError")
    /\ Len(crud_log.call.updates_in) = 2
    /\ LET first == crud_log.call.updates_in[1]
       IN  /\ first.key = "id"
           /\ first.id \in DOMAIN collection
           /\ "name" \in DOMAIN first.data
           /\ collection[first.id].name # first.data.name
    /\ crud_log.call.updates_in[2].key = "none"

\* update_all has set the fields of two documents, one named by "id" and one
\* by "_id"
C13_WitnessSet ==
    /\ crud_log.call.op = "update_all"
    /\ crud_log.out = Return(NoneValue)
    /\ Len(crud_log.call.updates_in) = 2
    /\ crud_log.call.updates_in[1].key = "id"
    /\ crud_log.call.updates_in[2].key = "_id"
    /\ {1, 2} \subseteq DOMAIN collection
    /\ collection[1].name = "b"
    /\ collection[2].desc_test = "d"

(***************************************************************************)
(* Claims on get_next_sequence                                             *)
(***************************************************************************)
\* C15 as stated: the calls of get_next_sequence for one key, concurrent calls
\* and calls racing on the first use of the key included, return 1, 2, 3, ...:
\* the k-th value returned is k, so none is returned twice and none is skipped
C15_SequenceAsStated ==
    \A k \in 1..Len(sequence_returned) : sequence_returned[k] = k

\* two calls that raced on the first use of the key have both returned 1
C15_WitnessRace ==
    /\ Len(sequence_returned) >= 2
    /\ sequence_returned[1] = 1
    /\ sequence_returned[2] = 1
    /\ Len(counter) = 2

\* what the code keeps: as long as the key has one document, the values returned
\* are 1, 2, 3, ... and the document's seq is the number of values returned
C15_OneDocumentSequence ==
    Len(counter) <= 1 /\ (\A c \in Callers : sequence_pc[c] = "idle")
    => /\ \A k \in 1..Len(sequence_returned) : sequence_returned[k] = k
       /\ counter # <<>> => counter[1] = Len(sequence_returned)

(***************************************************************************)
(* Claims on the authentication layer                                      *)
(***************************************************************************)
\* the permission list verify_user_permission checks a user against: the list
\* cached in Redis for the user if there is one, else the
\* interface_permissions of the user's roles
PermissionList(user) ==
    IF user.id \in DOMAIN permission_cache
    THEN permission_cache[user.id]
    ELSE UNION {role_table[code] : code \in user.roles}

\* C16: verify_user_permission returns an administrator without consulting
\* Redis or the role table; it returns another user if the route's path is in
\* the user's permission list and raises PermissionDeniedException otherwise
C16_VerifyUserPermission ==
    [][\A user \in Users :
          (auth_log'.op = "verify_user_permission" /\ auth_log'.user = user.id)
          => IF user.is_admin
             THEN /\ auth_log'.out.raised = ""
                  /\ auth_log'.out.value = user.id
                  /\ auth_log'.consulted = {}
                  /\ UNCHANGED permission_cache
             ELSE IF auth_log'.path \in PermissionList(user)
             THEN /\ auth_log'.out.raised = ""
                  /\ auth_log'.out.value = user.id
             ELSE auth_log'.out.raised = "PermissionDeniedException"]_vars

\* an administrator whose role lacks the path has been let through, with
\* nothing consulted
C16_Witness ==
    /\ auth_log.op = "verify_user_permission"
    /\ auth_log.user = 1
    /\ auth_log.path \notin role_table["r1"]
    /\ auth_log.consulted = {}
    /\ auth_log.out.raised = ""

\* a user whose permission list lacks the path has been refused
C16_WitnessDenied ==
    /\ auth_log.op = "verify_user_permission"
    /\ auth_log.user = 3
    /\ role_table["r2"] # {}
    /\ auth_log.out.raised = "PermissionDeniedException"

\* a user has been let through on the cached list, for a path no role of the
\* user has any more
C16_WitnessCached ==
    /\ auth_log.op = "verify_user_permission"
    /\ auth_log.user = 2
    /\ auth_log.consulted = {"redis"}
    /\ auth_log.path \notin role_table["r1"]
    /\ auth_log.out.raised = ""

\* the password decrypts with the server's key to the password whose hash is
\* stored for the username
PasswordMatches(username, password) ==
    /\ password.rsa = "server"
    /\ UserPasswords[username] = hash_password(password.message, UserPasswords[username].salt)

C17_WitnessDecrypt ==
    /\ auth_log.op = "user_login"
    /\ auth_log.password.rsa # "server"
    /\ auth_log.out.raised = "BadRequestException"

\* the right password has not produced tokens: create_token refuses the call
C17_WitnessTypeError ==
    /\ auth_log.op = "user_login"
    /\ PasswordMatches(auth_log.username, auth_log.password)
    /\ auth_log.out.raised = "TypeError"

\* C18 as stated: parse_jwt_user raises UnauthorizedException without token and
\* for a token that is not a JWT signed with the access-token key, and returns
\* the user identity of the token otherwise
C18_ParseJwtUserAsStated ==
    [][auth_log'.op = "parse_jwt_user"
       => IF auth_log'.token.jwt # "access"
          THEN auth_log'.out.raised = "UnauthorizedException"
          ELSE /\ auth_log'.out.raised = ""
               /\ auth_log'.out.value = auth_log'.token.sub]_vars

\* a JWT signed with the access-token key has been answered with TypeError
C18_WitnessTypeError ==
    /\ auth_log.op = "parse_jwt_user"
    /\ auth_log.token.jwt = "access"
    /\ ~auth_log.token.expired
    /\ auth_log.out.raised = "TypeError"

\* what the code keeps of C18: without token, UnauthorizedException
C18_NoTokenUnauthorized ==
    [][(auth_log'.op = "parse_jwt_user" /\ auth_log'.token = NoToken)
       => auth_log'.out.raised = "UnauthorizedException"]_vars

(***************************************************************************)
(* Claims on RedisManager                                                  *)
(***************************************************************************)
\* C19: RedisManager keeps one pool and one client per pool name: the pool map
\* and the client map have the same keys and each client uses the pool of its
\* name; connect with a connected name returns the existing pool and creates
\* nothing; client(name) raises RuntimeError exactly when name is not connected
C19_OnePoolPerName ==
    [][/\ DOMAIN redis_pools' = DOMAIN redis_clients'
       /\ \A pool_name \in DOMAIN redis_pools' : redis_clients'[pool_name] = redis_pools'[pool_name]
       /\ (redis_log'.op = "connect" /\ redis_log'.pool_name \in DOMAIN redis_pools)
          => /\ redis_log'.value = redis_pools[redis_log'.pool_name]
             /\ UNCHANGED <<redis_pools, redis_clients, redis_created>>
       /\ redis_log'.op = "client"
          => (redis_log'.raised = "RuntimeError" <=> redis_log'.pool_name \notin DOMAIN redis_clients)
      ]_vars

\* a name has been connected, disconnected and connected again, another name
\* is connected, and connect has just returned the pool of a connected name
C19_Witness ==
    /\ redis_log.op = "connect"
    /\ DOMAIN redis_pools = PoolNames
    /\ redis_created = MaxPools
    /\ redis_log.value < MaxPools

\* client has raised RuntimeError for a name that had been connected
C19_WitnessClient ==
    /\ redis_log.op = "client"
    /\ redis_log.raised = "RuntimeError"
    /\ redis_created > 0

\* a disconnect that resumed after a clear found its entries gone
C19_WitnessKeyError ==
    /\ redis_log.op = "disconnected"
    /\ redis_log.raised = "KeyError"

(***************************************************************************)
(* Claims on the websocket AsyncServer                                     *)
(***************************************************************************)
\* what C20 asks of an incoming event: the handler is called only with the
\* validated payload, a mapping that fails validation emits "error" with code
\* 1007 to the sending sid and a payload that is no mapping emits "error" with
\* code 1003 to the sending sid, the handler not being called in either case
ValidatedDispatch(log) ==
    /\ log.called_with # "not called" => (log.data = "valid map" /\ log.called_with = "parsed")
    /\ log.data = "invalid map"
       => /\ log.emitted = [event |-> "error", code |-> 1007, to |-> log.sid]
          /\ log.called_with = "not called"
    /\ log.data \in {"list", "none"}
       => /\ log.emitted = [event |-> "error", code |-> 1003, to |-> log.sid]
          /\ log.called_with = "not called"

\* C20 as stated: every event for a handler registered through AsyncServer.on
\* whose second parameter is annotated with a Pydantic model is dispatched
\* with validation
C20_ValidatedAsStated ==
    [][(ws_log'.op = "event" /\ ws_handlers[ws_log'.event].model_cls = "User")
       => ValidatedDispatch(ws_log')]_vars

\* a handler with a Pydantic second parameter, registered with
\* on(event, handler=func), has been called with a mapping that does not
\* validate, and nothing was emitted
C20_WitnessRawHandler ==
    /\ ws_log.op = "event"
    /\ ws_handlers[ws_log.event] = [call |-> "func", model_cls |-> "User"]
    /\ ws_log.data = "invalid map"
    /\ ws_log.called_with = "raw"
    /\ ws_log.emitted = NoEmit

\* what the code keeps of C20: a handler registered with the decorator form
\* @on(event) is dispatched with validation
C20_DecoratorValidates ==
    [][(ws_log'.op = "event" /\ ws_handlers[ws_log'.event] = [call |-> "wrapper", model_cls |-> "User"])
       => ValidatedDispatch(ws_log')]_vars

\* the wrapper has refused a payload that is no mapping
C20_WitnessUnsupported ==
    /\ ws_log.op = "event"
    /\ ws_handlers[ws_log.event].call = "wrapper"
    /\ ws_log.data = "list"
    /\ ws_log.emitted = [event |-> "error", code |-> 1003, to |-> "sid2"]

(***************************************************************************)
(* Claims about the exception handlers of src/main.py.                     *)
(***************************************************************************)
IsHTTPException(exc) ==
    exc.cls \in {"HTTPException", "BaseHTTPException", "PermissionDeniedException",
                 "NotFoundException"}

\* C21 as the specification states it: an HTTPException produces a response
\* whose status and whose body code equal the exception's status_code, a
\* request-validation error produces 422 and any other exception 500.
C21_AsStated ==
    http_log # NoRequest =>
       LET exc == http_log.exc
           response == http_log.response
       IN  /\ IsHTTPException(exc) =>
                 /\ response.status_code = exc.status_code
                 /\ response.content.code = exc.status_code
           /\ exc.cls = "RequestValidationError" => response.status_code = 422
           /\ ~IsHTTPException(exc) /\ exc.cls # "RequestValidationError" =>
                 response.status_code = 500

\* a validation error located in the body as a whole has been answered with 500
C21_WitnessBody ==
    /\ http_log # NoRequest
    /\ http_log.exc.cls = "RequestValidationError"
    /\ \E i \in DOMAIN http_log.exc.errors : http_log.exc.errors[i].loc = <<"body">>
    /\ http_log.response.status_code = 500

\* C21, what the handlers do: the HTTPException part and the 500 part hold as
\* stated, and a validation error gives 422 exactly when every item's loc has
\* a second element, 500 otherwise.
C21_HandlersMapStatus ==
    http_log # NoRequest =>
       LET exc == http_log.exc
           response == http_log.response
       IN  /\ IsHTTPException(exc) =>
                 /\ response.status_code = exc.status_code
                 /\ response.content.code = exc.status_code
           /\ exc.cls = "RequestValidationError" =>
                 response.status_code =
                    (IF \A i \in DOMAIN exc.errors : Len(exc.errors[i].loc) >= 2
                     THEN 422 ELSE 500)
           /\ ~IsHTTPException(exc) /\ exc.cls # "RequestValidationError" =>
                 response.status_code = 500

\* a NotFoundException raised with its defaults has been answered with 404
C21_WitnessNotFound ==
    /\ http_log # NoRequest
    /\ http_log.exc = NotFoundException(EmptyDict)
    /\ http_log.response.status_code = 404
    /\ http_log.response.content.code = 404

\* a PermissionDeniedException raised with its defaults has been answered with 403
C21_WitnessDenied ==
    /\ http_log # NoRequest
    /\ http_log.exc = PermissionDeniedException(EmptyDict)
    /\ http_log.response.status_code = 403
(***************************************************************************)
(* Claims about DatabaseScheduler.sync (checked under SpecSched).          *)
(***************************************************************************)
Synced == tick_log.op = "sync"

\* the in-memory entries that came from the database: neither configured in
\* beat_schedule nor Celery's default entry
LoadedNames == DOMAIN store \ (DOMAIN beat_schedule \cup {BackendCleanup})

\* C22 as the specification states it: after sync() returns, the periodic-task
\* data in the database reflects the in-memory schedule, here in the weakest
\* sense: every entry the schedule loaded from the database still has a row
\* of its name and task in celery_periodic_task.
C22_SyncAsStated ==
    Synced =>
        \A n \in LoadedNames :
            \E i \in RowIds :
                /\ periodic_task[i].present
                /\ periodic_task[i].name = n
                /\ periodic_task[i].task = store[n].task

\* sync() has returned while the schedule holds an entry whose row is gone
C22_WitnessStale ==
    /\ Synced
    /\ "db_task" \in DOMAIN store
    /\ \A i \in RowIds : ~(periodic_task[i].present /\ periodic_task[i].name = "db_task")

\* C22, what sync does: it writes neither the tables nor the in-memory schedule.
C22_SyncWritesNothing ==
    [][tick_log'.op = "sync" => UNCHANGED <<periodic_task, schedule_rows, store>>]_vars
(***************************************************************************)
(* Claims about get_paginate while other sessions write (checked under     *)
(* SpecPaginate).                                                          *)
(***************************************************************************)
Paginated == crud_log.call.op = "get_paginate"

\* C23 as the specification states it: in every get_paginate response the
\* number of records is at most page_size and at most total, also when other
\* sessions create or delete matching records while the call is running.
C23_AsStated ==
    Paginated =>
        LET response == crud_log.out.value
        IN  /\ Len(response.records) <= response.page_size
            /\ Len(response.records) <= response.total

\* a response of BaseSQLModelCRUD.get_paginate with more records than its
\* total: a record it had read was deleted before the count
C23_WitnessDeleted ==
    /\ Paginated
    /\ engine = "sql"
    /\ paginate_call.others > 0
    /\ Len(crud_log.out.value.records) > crud_log.out.value.total

\* the same for BaseBeanieCRUD.get_paginate, with a page size above zero
C23_WitnessDeletedBeanie ==
    /\ Paginated
    /\ engine = "beanie"
    /\ crud_log.out.value.page_size > 0
    /\ Len(crud_log.out.value.records) > crud_log.out.value.total

\* C23, what the two queries give: the records are within the page size
\* (MongoDB apart, where a limit of 0 is no limit), the total is the count
\* at the time of the second query, and the records are within the total
\* when no other session has written between the two queries.
C23_WithoutOtherWrites ==
    Paginated =>
        LET response == crud_log.out.value
        IN  /\ engine = "sql" \/ response.page_size > 0 =>
                  Len(response.records) <= response.page_size
            /\ response.total = get_count(stored_records, crud_log.call.filter)
            /\ paginate_call.others = 0 => Len(response.records) <= response.total
(***************************************************************************)
(* Claims about the atomicity of BaseSQLModelCRUD.update_all (checked      *)
(* under SpecSql).                                                         *)
(***************************************************************************)
UpdateAllRaised == crud_log.call.op = "update_all" /\ crud_log.out.raised # ""

\* C24 as the specification states it, for the commit that follows: when
\* update_all has raised for an item, a later commit on the same session
\* commits none of the updates of the items before it.
C24_AsStated ==
    [][UpdateAllRaised /\ crud_log'.call.op = "commit" =>
          \A i \in crud_log.call.left : sql_committed'[i] # sql_session[i]]_vars

\* update_all has raised ValueError or NotFoundException for its second item
\* and has left the update of its first item in the session, not committed
C24_WitnessLeft ==
    /\ UpdateAllRaised
    /\ crud_log.out.raised \in {"ValueError", "NotFoundException"}
    /\ Len(crud_log.call.updates_in) = 2
    /\ crud_log.call.left # {}
    /\ \E i \in crud_log.call.left : sql_committed[i] # sql_session[i]

\* C24, what update_all does when it raises: nothing is committed by the
\* call itself; after ValueError or NotFoundException the session keeps the
\* updates made so far, after a database error it is rolled back.
C24_RaisedCommitsNothing ==
    [][crud_log'.call.op = "update_all" /\ crud_log'.out.raised # "" =>
          /\ sql_committed' = sql_committed
          /\ crud_log'.out.raised = "RuntimeError" =>
                sql_session' = sql_committed /\ crud_log'.call.left = {}]_vars

\* update_all has met a database error and rolled the session back
C24_WitnessRollback ==
    /\ UpdateAllRaised
    /\ crud_log.out.raised = "RuntimeError"
    /\ sql_session = sql_committed
(***************************************************************************)
(* Claims about concurrent calls of RedisManager (checked under SpecRedis).*)
(***************************************************************************)
\* every disconnect and clear that was called has completed
RedisQuiescent == \A task \in Tasks : redis_tasks[task] = NoTask

RegisteredPools == {redis_pools[pool_name] : pool_name \in DOMAIN redis_pools}

\* the pools that were registered once and are not any more
DroppedPools == (1 .. redis_created) \ RegisteredPools

\* C25 as the specification states it: any interleaving of connect, disconnect
\* and clear completes without raising, and afterwards no pool that was
\* disconnected is still registered and no registered pool has been dropped
\* without being disconnected.
C25_AsStated ==
    /\ redis_log.op \in {"connect", "disconnect", "disconnected", "clear", "cleared"}
          => redis_log.raised = ""
    /\ RedisQuiescent =>
          /\ RegisteredPools \cap redis_disconnected = {}
          /\ DroppedPools \subseteq redis_disconnected

\* every call has completed and a pool has been dropped from the maps without
\* its disconnect() ever being called
C25_WitnessDropped ==
    /\ RedisQuiescent
    /\ DroppedPools \ redis_disconnected # {}

\* a disconnect has ended with KeyError and every call has completed
C25_WitnessRaised ==
    /\ RedisQuiescent
    /\ redis_log.op = "disconnected"
    /\ redis_log.raised = "KeyError"

\* C25, what holds of it: connect and clear never raise, and once every call
\* has completed no pool whose disconnect() was called is still registered.
C25_DisconnectedUnregistered ==
    /\ redis_log.op \in {"connect", "clear", "cleared"} => redis_log.raised = ""
    /\ RedisQuiescent => RegisteredPools \cap redis_disconnected = {}

\* every call has completed with a pool disconnected and removed while
\* another pool is registered
C25_WitnessDisconnected ==
    /\ RedisQuiescent
    /\ redis_disconnected # {}
    /\ RegisteredPools # {}
    /\ redis_log.op \in {"disconnected", "cleared"}
====
